---- MODULE Spec2Model ----
(***************************************************************************)
(* PDF-Genius: the retrieval-augmented question answering pipeline.        *)
(*                                                                         *)
(* Part I   generation with model fallback, bounded retry and streaming    *)
(*          (lib/gemini.ts with fallbacks).                    SpecGen     *)
(* Part II  extraction, ingestion, embedding, the vector store adapter     *)
(*          and the request handlers (upload, query, files).   Spec        *)
(*          Calls of the exported library functions.           SpecText    *)
(*          Uploads of documents of several upsert batches.    SpecBatch   *)
(*          Uploads, deletions and listings of named files.    SpecFiles   *)
(* Part III the multi-strategy extractor with its working-directory        *)
(*          workaround, several calls in flight.               SpecExtract *)
(*                                                                         *)
(* Strings the code only compares or searches are sequences of tokens:     *)
(* message.includes(x) is membership of the token x.                       *)
(***************************************************************************)
EXTENDS Integers, Sequences, FiniteSets, TLC

VARIABLES
    \* ---- Part I: one generation request -------------------------------
    gpc,        \* position of the request: idle, calling, backoff, streaming, done, failed, closed, errored
    gmode,      \* "sync" (generateResponse) or "stream" (generateStreamingResponse)
    modelIdx,   \* index into modelNames of the model being tried
    attempt,    \* retryWithBackoff's loop variable
    lastError,  \* generateWithFallback's lastError
    calls,      \* history of settled model calls: [model, attempt, ok, error]
    delays,     \* history of backoff waits: [model, attempt, delay]
    inflight,   \* the model calls issued and not yet settled
    gresult,    \* what generateWithFallback returned: [model |-> name] or NoValue
    surfaced,   \* the error thrown to the caller of generateResponse / generateStreamingResponse
    out,        \* events seen by the consumer of the ReadableStream
    provider,   \* what the provider stream did: "open", "ended", "failed", or "none"
    yielded,    \* number of chunks the provider stream has yielded
    \* ---- Part II: the vector index and the request being served ---------
    store,      \* the records of the Pinecone index
    now,        \* the clock read by Date.now()
    req,        \* the request being served: the handler's state
    started,    \* number of requests accepted so far
    \* ---- Part III: the multi-strategy extractor --------------------------
    cwd,        \* the working directory of the process (process.cwd())
    ext         \* the extractTextFromPDF calls: each call's position and locals

genVars == <<gpc, gmode, modelIdx, attempt, lastError, calls, delays, inflight,
             gresult, surfaced, out, provider, yielded>>

ingVars == <<store, now, req, started>>

extVars == <<cwd, ext>>

vars == <<genVars, ingVars, extVars>>

NoValue == [none |-> TRUE]

Includes(message, token) == \E i \in DOMAIN message : message[i] = token

\* F applied to the value of v, with v evaluated once.
With(v, F(_)) == CHOOSE y \in {F(x) : x \in {v}} : TRUE

(***************************************************************************)
(* Part I.  Generation                                                     *)
(***************************************************************************)

modelNames == <<"gemini-2.0-flash", "gemini-2.5-pro", "gemini-2.5-flash">>

maxRetries == 3

baseDelay == 1000

\* Length bound of a provider stream (number of chunks it may yield).
MaxStreamChunks == 2

\* Failures the provider's SDK can raise for a call.
ProviderErrors ==
    { [status |-> 503, message |-> <<"[", "503", "Service Unavailable]">>],
      [status |-> 429, message |-> <<"[", "429", "Too Many Requests]">>],
      [status |-> 0,   message |-> <<"The model is", "overloaded">>],
      [status |-> 400, message |-> <<"API key not valid">>] }

Pow2(n) == IF n = 0 THEN 1 ELSE IF n = 1 THEN 2 ELSE IF n = 2 THEN 4 ELSE 8

\* Variant of isRetryableError that takes every failure for a retryable one.
isRetryableErrorAny(error) == TRUE

isRetryableError(error) ==
    \/ error.status = 503
    \/ error.status = 429
    \/ Includes(error.message, "overloaded")

isLastAttempt(a) == a = maxRetries

\* Variant of backoffDelay that waits the base delay after every failure.
backoffDelayFlat(a) == baseDelay

backoffDelay(a) == baseDelay * Pow2(a - 1)

\* The catch block of retryWithBackoff: TRUE when the error is rethrown.
retryGivesUp(a, error) == isLastAttempt(a) \/ ~isRetryableError(error)

\* Variant of nextModel that stays on the model that has just failed.
nextModelSame(i) == i

\* The for-of loop of generateWithFallback: the model tried after model i failed.
nextModel(i) == i + 1

\* The catch block of generateResponse: the error handed to the caller, built by
\* `new Error(message)` (no status, no cause).
generateResponseError(error) ==
    IF Includes(error.message, "overloaded") \/ Includes(error.message, "503")
    THEN [status |-> 0,
          message |-> <<"The AI service is currently", "overloaded",
                        ". Please try again in a few moments.">>,
          cause |-> NoValue]
    ELSE IF Includes(error.message, "429")
    THEN [status |-> 0,
          message |-> <<"Rate limit exceeded",
                        ". Please wait a moment before trying again.">>,
          cause |-> NoValue]
    ELSE [status |-> 0, message |-> <<"Failed to generate response">>,
          cause |-> NoValue]

\* The catch block of generateStreamingResponse.
generateStreamingResponseError(error) ==
    IF Includes(error.message, "overloaded") \/ Includes(error.message, "503")
    THEN [status |-> 0,
          message |-> <<"The AI service is currently", "overloaded",
                        ". Please try again in a few moments.">>,
          cause |-> NoValue]
    ELSE IF Includes(error.message, "429")
    THEN [status |-> 0,
          message |-> <<"Rate limit exceeded",
                        ". Please wait a moment before trying again.">>,
          cause |-> NoValue]
    ELSE [status |-> 0, message |-> <<"Failed to generate streaming response">>,
          cause |-> NoValue]

\* ReadableStream.start: one chunk of the provider stream.
onChunk(o, text) == IF text # "" THEN Append(o, "fragment") ELSE o

\* ReadableStream.start: the provider stream completed.
onComplete(o) == Append(o, "close")

\* Variant of onError that closes the stream when the provider stream threw.
onErrorClose(o) == Append(o, "close")

\* ReadableStream.start: the provider stream threw.
onError(o) == Append(o, "error")

(***************************************************************************)
(* Part II.  Text, extraction and chunking                                 *)
(*                                                                         *)
(* A text is a sequence of tokens, each a maximal run of one kind:         *)
(*   "w"  non-whitespace, non-control characters (a word): len characters, *)
(*        cap = its first character is in [A-Z], term = its last is [.!?]; *)
(*   "s"  whitespace characters;                                           *)
(*   "c"  control characters of [\x00-\x08\x0E-\x1F\x7F].                  *)
(***************************************************************************)

Word(id, len, cap, term) == [k |-> "w", id |-> id, len |-> len, cap |-> cap, term |-> term]

Sp(n) == [k |-> "s", id |-> "", len |-> n, cap |-> FALSE, term |-> FALSE]

Ctl(n) == [k |-> "c", id |-> "", len |-> n, cap |-> FALSE, term |-> FALSE]

Last(q) == q[Len(q)]

RECURSIVE strLength(_)
\* String.prototype.length
strLength(t) == IF t = <<>> THEN 0 ELSE t[1].len + strLength(Tail(t))

RECURSIVE trimStart(_)
trimStart(t) == IF t # <<>> /\ t[1].k = "s" THEN trimStart(Tail(t)) ELSE t

RECURSIVE trimEnd(_)
trimEnd(t) == IF t # <<>> /\ Last(t).k = "s" THEN trimEnd(SubSeq(t, 1, Len(t) - 1)) ELSE t

\* String.prototype.trim
trim(t) == trimEnd(trimStart(t))

\* a + b on strings: the runs that meet are one run.
concat(a, b) ==
    IF a = <<>> THEN b
    ELSE IF b = <<>> THEN a
    ELSE IF Last(a).k = b[1].k
    THEN SubSeq(a, 1, Len(a) - 1)
         \o << [k |-> b[1].k, id |-> Last(a).id \o b[1].id, len |-> Last(a).len + b[1].len,
                cap |-> Last(a).cap, term |-> b[1].term] >>
         \o Tail(b)
    ELSE a \o b

RECURSIVE removeControl(_)
\* .replace(/[\x00-\x08\x0B\x0C\x0E-\x1F\x7F]/g, "")
removeControl(t) ==
    IF t = <<>> THEN <<>>
    ELSE LET rest == removeControl(SubSeq(t, 1, Len(t) - 1))
         IN  IF Last(t).k = "c" THEN rest ELSE concat(rest, <<Last(t)>>)

\* .replace(/\s+/g, " ")
collapseWhitespace(t) == [i \in DOMAIN t |-> IF t[i].k = "s" THEN Sp(1) ELSE t[i]]

\* cleanText of pdf-processor-improved.ts. After the first replacement the text
\* holds no \r and no \n, so the three line-break replacements change nothing.
cleanText(text) ==
    IF text = <<>> THEN <<>>
    ELSE trim(removeControl(collapseWhitespace(text)))

\* The positions matched by /(?<=[.!?])\s+(?=[A-Z])/.
isBoundary(t, i) ==
    /\ t[i].k = "s"
    /\ i > 1 /\ t[i - 1].k = "w" /\ t[i - 1].term
    /\ i < Len(t) /\ t[i + 1].k = "w" /\ t[i + 1].cap

RECURSIVE piecesFrom(_, _, _)
\* String.prototype.split: the pieces of t[from..] between the separators at `hits`.
piecesFrom(t, from, hits) ==
    LET later == {h \in hits : h >= from}
    IN  IF later = {} THEN <<SubSeq(t, from, Len(t))>>
        ELSE LET i == CHOOSE j \in later : \A h \in later : j <= h
             IN  <<SubSeq(t, from, i - 1)>> \o piecesFrom(t, i + 1, hits)

isSpace(t, i) == t[i].k = "s"

\* text.split(/(?<=[.!?])\s+(?=[A-Z])/).filter((s) => s.trim().length > 0)
sentencesOf(text) ==
    SelectSeq(piecesFrom(text, 1, {i \in DOMAIN text : isBoundary(text, i)}),
              LAMBDA s : strLength(trim(s)) > 0)

RECURSIVE join(_)
\* Array.prototype.join(" ")
join(ws) ==
    IF ws = <<>> THEN <<>>
    ELSE IF Len(ws) = 1 THEN ws[1]
    ELSE concat(concat(ws[1], <<Sp(1)>>), join(Tail(ws)))

\* Array.prototype.slice(-n): slice(-0) is slice(0), the whole array, and for a
\* negative n the start index -n is counted from the front.
sliceLast(ws, n) ==
    IF n = 0 THEN ws
    ELSE IF n < 0 THEN SubSeq(ws, 1 - n, Len(ws))
    ELSE SubSeq(ws, IF Len(ws) - n < 0 THEN 1 ELSE Len(ws) - n + 1, Len(ws))

Min(a, b) == IF a < b THEN a ELSE b

Max(a, b) == IF a > b THEN a ELSE b

CeilDiv(a, b) == (a + b - 1) \div b

avgCharsPerPage == 2500

RECURSIVE sumLengths(_)
\* chunks.reduce((sum, chunk) => sum + chunk.text.length, 0)
sumLengths(chunks) ==
    IF chunks = <<>> THEN 0 ELSE strLength(chunks[1].text) + sumLengths(Tail(chunks))

\* The overlap text of a flush: the last floor(overlap / 6) words of currentChunk.
overlapTextOf(currentChunk, overlap) ==
    With(piecesFrom(currentChunk, 1,
                    {i \in DOMAIN currentChunk : isSpace(currentChunk, i)}), LAMBDA words :
         LET overlapWords == Min(overlap \div 6, Len(words))
         IN  join(sliceLast(words, overlapWords)))

\* Variant of chunkStep that forgets `currentChunkIndex++`.
chunkStepSameIndex(st, sentence, chunkSize, overlap) ==
    LET flush == /\ strLength(st.currentChunk) + strLength(sentence) + 1 > chunkSize
                 /\ strLength(st.currentChunk) > 0
        overlapText == overlapTextOf(st.currentChunk, overlap)
        chunks1 == IF flush
                   THEN Append(st.chunks, [text |-> trim(st.currentChunk),
                                           pageNumber |-> st.currentPageNumber,
                                           chunkIndex |-> st.currentChunkIndex])
                   ELSE st.chunks
        current1 == IF flush
                    THEN IF overlapText # <<>>
                         THEN concat(concat(overlapText, <<Sp(1)>>), sentence)
                         ELSE sentence
                    ELSE IF st.currentChunk # <<>>
                         THEN concat(concat(st.currentChunk, <<Sp(1)>>), sentence)
                         ELSE sentence
        total == sumLengths(chunks1) + strLength(current1)
    IN  [chunks |-> chunks1,
         currentChunk |-> current1,
         currentChunkIndex |-> st.currentChunkIndex,
         currentPageNumber |-> Max(1, CeilDiv(total, avgCharsPerPage))]

\* Variant of chunkStep that flushes only once currentChunk itself is longer than
\* chunkSize.
chunkStepLateFlush(st, sentence, chunkSize, overlap) ==
    LET flush == /\ strLength(st.currentChunk) > chunkSize
                 /\ strLength(st.currentChunk) > 0
        overlapText == overlapTextOf(st.currentChunk, overlap)
        chunks1 == IF flush
                   THEN Append(st.chunks, [text |-> trim(st.currentChunk),
                                           pageNumber |-> st.currentPageNumber,
                                           chunkIndex |-> st.currentChunkIndex])
                   ELSE st.chunks
        current1 == IF flush
                    THEN IF overlapText # <<>>
                         THEN concat(concat(overlapText, <<Sp(1)>>), sentence)
                         ELSE sentence
                    ELSE IF st.currentChunk # <<>>
                         THEN concat(concat(st.currentChunk, <<Sp(1)>>), sentence)
                         ELSE sentence
        total == sumLengths(chunks1) + strLength(current1)
    IN  [chunks |-> chunks1,
         currentChunk |-> current1,
         currentChunkIndex |-> IF flush THEN st.currentChunkIndex + 1 ELSE st.currentChunkIndex,
         currentPageNumber |-> Max(1, CeilDiv(total, avgCharsPerPage))]

\* One iteration of the loop of splitTextIntoChunks on the trimmed sentence.
chunkStep(st, sentence, chunkSize, overlap) ==
    LET flush == /\ strLength(st.currentChunk) + strLength(sentence) + 1 > chunkSize
                 /\ strLength(st.currentChunk) > 0
        overlapText == overlapTextOf(st.currentChunk, overlap)
        chunks1 == IF flush
                   THEN Append(st.chunks, [text |-> trim(st.currentChunk),
                                           pageNumber |-> st.currentPageNumber,
                                           chunkIndex |-> st.currentChunkIndex])
                   ELSE st.chunks
        current1 == IF flush
                    THEN IF overlapText # <<>>
                         THEN concat(concat(overlapText, <<Sp(1)>>), sentence)
                         ELSE sentence
                    ELSE IF st.currentChunk # <<>>
                         THEN concat(concat(st.currentChunk, <<Sp(1)>>), sentence)
                         ELSE sentence
        total == sumLengths(chunks1) + strLength(current1)
    IN  [chunks |-> chunks1,
         currentChunk |-> current1,
         currentChunkIndex |-> IF flush THEN st.currentChunkIndex + 1 ELSE st.currentChunkIndex,
         currentPageNumber |-> Max(1, CeilDiv(total, avgCharsPerPage))]

RECURSIVE chunkLoop(_, _, _, _, _)
chunkLoop(st, sentences, i, chunkSize, overlap) ==
    IF i > Len(sentences) THEN st
    ELSE LET sentence == trim(sentences[i])
         IN  IF sentence = <<>>
             THEN chunkLoop(st, sentences, i + 1, chunkSize, overlap)
             ELSE With(chunkStep(st, sentence, chunkSize, overlap),
                       LAMBDA st1 : chunkLoop(st1, sentences, i + 1, chunkSize, overlap))

RECURSIVE flushLoop(_, _, _, _, _)
\* The flushes of the loop of splitTextIntoChunks: for each iteration that takes
\* the flush branch, the chunk pushed, the sentence of the iteration and
\* currentChunk after it.
flushLoop(st, sentences, i, chunkSize, overlap) ==
    IF i > Len(sentences) THEN <<>>
    ELSE LET sentence == trim(sentences[i])
         IN  IF sentence = <<>>
             THEN flushLoop(st, sentences, i + 1, chunkSize, overlap)
             ELSE With(chunkStep(st, sentence, chunkSize, overlap), LAMBDA st1 :
                      (IF Len(st1.chunks) > Len(st.chunks)
                       THEN <<[emitted |-> Last(st1.chunks).text, sentence |-> sentence,
                               buffer |-> st1.currentChunk]>>
                       ELSE <<>>)
                      \o flushLoop(st1, sentences, i + 1, chunkSize, overlap))

\* The flushes of splitTextIntoChunks(text, chunkSize, overlap).
flushesOf(text, chunkSize, overlap) ==
    IF text = <<>> \/ strLength(trim(text)) = 0 THEN <<>>
    ELSE flushLoop([chunks |-> <<>>, currentChunk |-> <<>>,
                    currentChunkIndex |-> 0, currentPageNumber |-> 1],
                   sentencesOf(text), 1, chunkSize, overlap)

\* Variant of splitTextIntoChunks that does not emit the trailing chunk.
splitTextIntoChunksNoTail(text, chunkSize, overlap) ==
    IF text = <<>> \/ strLength(trim(text)) = 0 THEN <<>>
    ELSE With(sentencesOf(text), LAMBDA sentences :
             chunkLoop([chunks |-> <<>>, currentChunk |-> <<>>,
                        currentChunkIndex |-> 0, currentPageNumber |-> 1],
                       sentences, 1, chunkSize, overlap).chunks)

\* Variant of splitTextIntoChunks without the early return, which trims the
\* text before looking for sentences.
splitTextIntoChunksTrimmedOnly(text, chunkSize, overlap) ==
    With(sentencesOf(trim(removeControl(text))), LAMBDA sentences :
    With(chunkLoop([chunks |-> <<>>, currentChunk |-> <<>>,
                    currentChunkIndex |-> 0, currentPageNumber |-> 1],
                   sentences, 1, chunkSize, overlap), LAMBDA st :
        IF strLength(trim(st.currentChunk)) > 0
        THEN Append(st.chunks, [text |-> trim(st.currentChunk),
                                pageNumber |-> st.currentPageNumber,
                                chunkIndex |-> st.currentChunkIndex])
        ELSE st.chunks))

\* splitTextIntoChunks of pdf-processor-improved.ts
splitTextIntoChunks(text, chunkSize, overlap) ==
    IF text = <<>> \/ strLength(trim(text)) = 0 THEN <<>>
    ELSE With(sentencesOf(text), LAMBDA sentences :
         With(chunkLoop([chunks |-> <<>>, currentChunk |-> <<>>,
                         currentChunkIndex |-> 0, currentPageNumber |-> 1],
                        sentences, 1, chunkSize, overlap), LAMBDA st :
             IF strLength(trim(st.currentChunk)) > 0
             THEN Append(st.chunks, [text |-> trim(st.currentChunk),
                                     pageNumber |-> st.currentPageNumber,
                                     chunkIndex |-> st.currentChunkIndex])
             ELSE st.chunks))

(***************************************************************************)
(* The splitter of the older pdf-processor.ts.  Its sentences end at runs  *)
(* of [.!?], so its texts are written with a fourth kind of token:         *)
(*   "p"  a run of the characters [.!?];                                   *)
(* "w" tokens then hold none of these characters, and "s" tokens are runs  *)
(* of the space character.                                                 *)
(***************************************************************************)

Punct(n) == [k |-> "p", id |-> "", len |-> n, cap |-> FALSE, term |-> FALSE]

RECURSIVE splitOnSpace(_)
\* String.prototype.split(" "): a run of n spaces separates n + 1 pieces.
splitOnSpace(t) ==
    IF t = <<>> THEN << <<>> >>
    ELSE With(splitOnSpace(SubSeq(t, 1, Len(t) - 1)), LAMBDA rest :
             IF Last(t).k = "s"
             THEN rest \o [i \in 1..Last(t).len |-> <<>>]
             ELSE SubSeq(rest, 1, Len(rest) - 1) \o << concat(Last(rest), <<Last(t)>>) >>)

\* text.split(/[.!?]+/).filter((s) => s.trim().length > 0)
legacySentencesOf(text) ==
    SelectSeq(piecesFrom(text, 1, {i \in DOMAIN text : text[i].k = "p"}),
              LAMBDA s : strLength(trim(s)) > 0)

\* One iteration of the loop of the older splitTextIntoChunks.
legacyChunkStep(st, sentence, chunkSize, overlap) ==
    LET flush == /\ strLength(st.currentChunk) + strLength(sentence) + 1 > chunkSize
                 /\ strLength(st.currentChunk) > 0
        overlapWords == sliceLast(splitOnSpace(st.currentChunk), overlap \div 6)
        chunks1 == IF flush
                   THEN Append(st.chunks, [text |-> trim(st.currentChunk),
                                           pageNumber |-> st.currentPageNumber,
                                           chunkIndex |-> st.currentChunkIndex])
                   ELSE st.chunks
        current1 == IF flush
                    THEN concat(concat(join(overlapWords), <<Sp(1)>>), sentence)
                    ELSE IF st.currentChunk # <<>>
                         THEN concat(concat(st.currentChunk, <<Sp(1)>>), sentence)
                         ELSE sentence
    IN  [chunks |-> chunks1,
         currentChunk |-> current1,
         currentChunkIndex |-> IF flush THEN st.currentChunkIndex + 1 ELSE st.currentChunkIndex,
         currentPageNumber |-> IF strLength(current1) > 2000 * st.currentPageNumber
                               THEN st.currentPageNumber + 1
                               ELSE st.currentPageNumber]

RECURSIVE legacyChunkLoop(_, _, _, _, _)
legacyChunkLoop(st, sentences, i, chunkSize, overlap) ==
    IF i > Len(sentences) THEN st
    ELSE LET sentence == trim(sentences[i])
         IN  IF sentence = <<>>
             THEN legacyChunkLoop(st, sentences, i + 1, chunkSize, overlap)
             ELSE With(legacyChunkStep(st, sentence, chunkSize, overlap),
                       LAMBDA st1 : legacyChunkLoop(st1, sentences, i + 1, chunkSize, overlap))

\* splitTextIntoChunks of the older pdf-processor.ts
legacySplitTextIntoChunks(text, chunkSize, overlap) ==
    With(legacySentencesOf(text), LAMBDA sentences :
    With(legacyChunkLoop([chunks |-> <<>>, currentChunk |-> <<>>,
                          currentChunkIndex |-> 0, currentPageNumber |-> 1],
                         sentences, 1, chunkSize, overlap), LAMBDA st :
        IF strLength(trim(st.currentChunk)) > 0
        THEN Append(st.chunks, [text |-> trim(st.currentChunk),
                                pageNumber |-> st.currentPageNumber,
                                chunkIndex |-> st.currentChunkIndex])
        ELSE st.chunks))

(***************************************************************************)
(* Buffers and the PDF library.  A buffer is known by its length, its      *)
(* first four bytes and what the bytes encode.                             *)
(***************************************************************************)

PdfMagic == <<"%", "P", "D", "F">>

\* buffer.toString("ascii", 0, 4)
headerOf(buffer) == buffer.head

\* pdf-parse on a buffer: what it returns or throws. `env` is "enoent" when the
\* library looks for its own test file and does not find it.
pdfParse(buffer, env) ==
    IF env = "enoent"
    THEN [ok |-> FALSE, text |-> <<>>,
          error |-> <<"ENOENT", ": no such file or directory, open './", "test",
                      "/data/05-versions-space.pdf'">>]
    ELSE IF buffer.kind = "garbage"
    THEN [ok |-> FALSE, text |-> <<>>, error |-> <<"Invalid PDF", " structure">>]
    ELSE IF buffer.kind = "encrypted"
    THEN [ok |-> FALSE, text |-> <<>>, error |-> <<"No ", "password", " given">>]
    ELSE [ok |-> TRUE, text |-> buffer.text, error |-> <<>>]

\* The outer catch of extractTextFromPDF.
extractionFailed(message, parserCalls) ==
    [ok |-> FALSE, text |-> <<>>,
     error |-> <<"PDF text extraction failed: ">> \o message,
     parserCalls |-> parserCalls]

\* extractTextFromPDF of the older pdf-processor.ts, which hands every non-empty
\* buffer to the parser.
extractTextFromPDFLegacy(buffer, env) ==
    LET failed(message, parserCalls) ==
            [ok |-> FALSE, text |-> <<>>, parserCalls |-> parserCalls,
             error |-> IF Includes(message, "Invalid PDF")
                       THEN <<"Invalid PDF", " file format">>
                       ELSE IF Includes(message, "password")
                       THEN <<"PDF is ", "password", " protected">>
                       ELSE <<"Failed to extract text from PDF: ">> \o message]
    IN  IF buffer.size = 0
        THEN failed(<<"Invalid or empty PDF buffer">>, 0)
        ELSE With(pdfParse(buffer, env), LAMBDA data :
                 IF ~data.ok
                 THEN failed(IF Includes(data.error, "ENOENT") /\ Includes(data.error, "test")
                             THEN <<"PDF parsing library has configuration issues.">>
                             ELSE IF Includes(data.error, "Invalid PDF")
                             THEN <<"The uploaded file is not a valid PDF document">>
                             ELSE IF Includes(data.error, "password")
                             THEN <<"This PDF is ", "password", " protected and cannot be processed">>
                             ELSE <<"PDF parsing failed: ">> \o data.error, 1)
                 ELSE IF data.text = <<>> \/ strLength(trim(data.text)) = 0
                 THEN failed(<<"No text content", " found in PDF. The PDF might be image-based or ",
                               "password", " protected.">>, 1)
                 ELSE [ok |-> TRUE, text |-> data.text, error |-> <<>>, parserCalls |-> 1])

\* Variant of extractTextFromPDF that returns whatever text the parser produced.
extractTextFromPDFUnchecked(buffer, env) ==
    IF buffer.size = 0
    THEN extractionFailed(<<"Invalid or empty PDF buffer">>, 0)
    ELSE IF headerOf(buffer) # PdfMagic
    THEN extractionFailed(<<"Invalid PDF", " file: Missing PDF header">>, 0)
    ELSE With(pdfParse(buffer, env), LAMBDA data :
             IF ~data.ok
             THEN extractionFailed(data.error, 1)
             ELSE [ok |-> TRUE, text |-> data.text, error |-> <<>>, parserCalls |-> 1])

\* extractTextFromPDF of pdf-processor-improved.ts
extractTextFromPDF(buffer, env) ==
    IF buffer.size = 0
    THEN extractionFailed(<<"Invalid or empty PDF buffer">>, 0)
    ELSE IF headerOf(buffer) # PdfMagic
    THEN extractionFailed(<<"Invalid PDF", " file: Missing PDF header">>, 0)
    ELSE With(pdfParse(buffer, env), LAMBDA data :
             IF ~data.ok
             THEN extractionFailed(data.error, 1)
             ELSE IF data.text # <<>> /\ strLength(trim(data.text)) > 0
             THEN [ok |-> TRUE, text |-> data.text, error |-> <<>>, parserCalls |-> 1]
             ELSE extractionFailed(
                      <<"Failed to extract text from PDF. The file might be ", "password",
                        " protected, corrupted, or contain only images.">>, 1))

\* validatePDFBuffer of pdf-processor-improved.ts
validatePDFBuffer(buffer) ==
    IF buffer.size = 0
    THEN [isValid |-> FALSE, error |-> <<"Empty or invalid buffer">>]
    ELSE IF buffer.size < 100
    THEN [isValid |-> FALSE, error |-> <<"File too small to be a valid PDF">>]
    ELSE IF headerOf(buffer) # PdfMagic
    THEN [isValid |-> FALSE, error |-> <<"Invalid PDF", " file format">>]
    ELSE [isValid |-> TRUE, error |-> <<>>]

\* The catch block of processPDFToChunks.
processingFailed(message, parserCalls) ==
    [ok |-> FALSE, chunks |-> <<>>, parserCalls |-> parserCalls,
     error |-> IF Includes(message, "Invalid PDF")
               THEN <<"The uploaded file is not a valid PDF document">>
               ELSE IF Includes(message, "password")
               THEN <<"This PDF is ", "password", " protected and cannot be processed">>
               ELSE IF Includes(message, "ENOENT")
               THEN <<"PDF processing library configuration issue. Please try again or contact support.">>
               ELSE message]

\* processPDFToChunks of pdf-processor-improved.ts
processPDFToChunks(buffer, chunkSize, overlap, env) ==
    IF buffer.size = 0
    THEN processingFailed(<<"Invalid PDF", " buffer provided">>, 0)
    ELSE IF chunkSize < 100 \/ chunkSize > 10000
    THEN processingFailed(<<"Chunk size must be between 100 and 10000 characters">>, 0)
    ELSE IF overlap < 0 \/ overlap >= chunkSize
    THEN processingFailed(<<"Overlap must be between 0 and chunk size">>, 0)
    ELSE With(extractTextFromPDF(buffer, env), LAMBDA ex :
             IF ~ex.ok THEN processingFailed(ex.error, ex.parserCalls)
             ELSE IF strLength(ex.text) = 0
             THEN processingFailed(<<"No text content", " found in PDF">>, ex.parserCalls)
             ELSE With(cleanText(ex.text), LAMBDA cleanedText :
                  IF strLength(cleanedText) = 0
                  THEN processingFailed(<<"No valid text content after cleaning">>,
                                        ex.parserCalls)
                  ELSE With(splitTextIntoChunks(cleanedText, chunkSize, overlap), LAMBDA chunks :
                       With(SelectSeq(chunks, LAMBDA c :
                                c.text # <<>> /\ strLength(trim(c.text)) > 0),
                            LAMBDA validChunks :
                           IF Len(chunks) = 0
                           THEN processingFailed(
                                    <<"Failed to create text chunks from PDF content">>,
                                    ex.parserCalls)
                           ELSE IF Len(validChunks) = 0
                           THEN processingFailed(<<"All created chunks are empty">>,
                                                 ex.parserCalls)
                           ELSE [ok |-> TRUE, chunks |-> validChunks, error |-> <<>>,
                                 parserCalls |-> ex.parserCalls]))))

SafeChars ==
    {"a", "b", "c", "d", "e", "f", "g", "h", "i", "j", "k", "l", "m", "n", "o", "p", "q",
     "r", "s", "t", "u", "v", "w", "x", "y", "z",
     "A", "B", "C", "D", "E", "F", "G", "H", "I", "J", "K", "L", "M", "N", "O", "P", "Q",
     "R", "S", "T", "U", "V", "W", "X", "Y", "Z",
     "0", "1", "2", "3", "4", "5", "6", "7", "8", "9", ".", "-"}

\* fileName.replace(/[^a-zA-Z0-9.-]/g, "_")
sanitize(name) == [i \in DOMAIN name |-> IF name[i] \in SafeChars THEN name[i] ELSE "_"]

Digit == <<"0", "1", "2", "3", "4", "5", "6", "7", "8", "9">>

RECURSIVE digits(_)
\* The decimal rendering of a number inside a template string.
digits(n) == IF n < 10 THEN <<Digit[n + 1]>> ELSE digits(n \div 10) \o <<Digit[(n % 10) + 1]>>

\* generateChunkId of pdf-processor-improved.ts; timestamp is what Date.now() returned.
generateChunkId(userId, fileName, chunkIndex, timestamp) ==
    userId \o <<"-">> \o sanitize(fileName) \o <<"-">> \o digits(chunkIndex)
           \o <<"-">> \o digits(timestamp)


\* generateChunkId of pdf-processor.ts: the file name is used as given.
legacyGenerateChunkId(userId, fileName, chunkIndex, timestamp) ==
    userId \o <<"-">> \o fileName \o <<"-">> \o digits(chunkIndex)
           \o <<"-">> \o digits(timestamp)

(***************************************************************************)
(* Part II.  Embedding, the vector store adapter and the request handlers  *)
(***************************************************************************)

\* The dimension of the index (GEMINI_EMBEDDING_DIMENSION, and the dummy vector
\* of getAllUserFiles).
EmbeddingDimension == 768

\* What embeddingModel.embedContent(text) resolves to: the provider's vector for
\* the text. The code does not look at the number of values it carries.
embedContent(text, dim) == [of |-> text, dim |-> dim]

\* generateEmbedding: `return result.embedding.values`.
generateEmbedding(providerVector) == providerVector

NoVector == [of |-> <<>>, dim |-> 0]

\* Variant of collect that stores a value in the first free place (arrival order).
collectArrival(embeddings, i, v) ==
    LET free == CHOOSE j \in DOMAIN embeddings :
                    /\ embeddings[j] = NoVector
                    /\ \A k \in 1..(j - 1) : embeddings[k] # NoVector
    IN  [embeddings EXCEPT ![free] = v]

\* Promise.all: the value of the i-th promise is element i of the result.
collect(embeddings, i, v) == [embeddings EXCEPT ![i] = v]

\* Variant of queryFilter that names no field.
queryFilterNone(userId) == [f \in {} |-> userId]

\* The filter queryVectors hands to index.query.
queryFilter(userId) == [f \in {"userId"} |-> userId]

\* Variant of deleteFilter that never names the file.
deleteFilterUserOnly(userId, fileName) == [f \in {"userId"} |-> userId]

\* The filter deleteVectors hands to index.deleteMany (`if (fileName)`).
deleteFilter(userId, fileName) ==
    IF fileName.present /\ fileName.value # <<>>
    THEN [f \in {"userId", "fileName"} |-> IF f = "userId" THEN userId ELSE fileName.value]
    ELSE [f \in {"userId"} |-> userId]

\* The backend's metadata filter: every named field equals the given value.
matchesFilter(record, filter) == \A f \in DOMAIN filter : record.metadata[f] = filter[f]

\* index.query: any topK of the records the filter admits.
backendQuery(records, filter, topK) ==
    LET hits == {rec \in records : matchesFilter(rec, filter)}
    IN  {m \in SUBSET hits : Cardinality(m) = Min(topK, Cardinality(hits))}

\* index.upsert(batch): a record with a known id replaces the stored one.
backendUpsert(records, batch) ==
    {rec \in records : \A i \in DOMAIN batch : batch[i].id # rec.id}
        \cup {batch[i] : i \in DOMAIN batch}

\* index.deleteMany(filter)
backendDelete(records, filter) == {rec \in records : ~matchesFilter(rec, filter)}

\* upsertVectors: the record built for chunk i.
vectorOf(chunks, embeddings, i) ==
    [id |-> chunks[i].id,
     values |-> embeddings[i],
     metadata |-> [text |-> chunks[i].text,
                   userId |-> chunks[i].metadata.userId,
                   fileName |-> chunks[i].metadata.fileName,
                   pageNumber |-> chunks[i].metadata.pageNumber,
                   chunkIndex |-> chunks[i].metadata.chunkIndex,
                   uploadedAt |-> chunks[i].metadata.uploadedAt]]

batchSize == 100

\* Variant of batchAt that slices one record too many.
batchAtOverlapping(chunks, embeddings, i) ==
    [j \in 1..(Min(i + batchSize + 1, Len(chunks)) - i) |-> vectorOf(chunks, embeddings, i + j)]

\* vectors.slice(i, i + batchSize)
batchAt(chunks, embeddings, i) ==
    [j \in 1..(Min(i + batchSize, Len(chunks)) - i) |-> vectorOf(chunks, embeddings, i + j)]

\* The upload handler: the PdfChunk built for processed chunk `index` (0-based).
pdfChunkOf(userId, fileName, chunk, index, timestamp) ==
    [id |-> generateChunkId(userId, fileName, index, timestamp),
     text |-> chunk.text,
     metadata |-> [userId |-> userId,
                   fileName |-> fileName,
                   pageNumber |-> chunk.pageNumber,
                   chunkIndex |-> index,
                   uploadedAt |-> timestamp]]

\* Variant of maxSize with a limit of 20 MB.
maxSizeDoubled == 10485760 * 2

maxSize == 10485760

topKQuery == 5

\* The topK of the query of getAllUserFiles.
topKList == 10000

\* The filter getAllUserFiles hands to index.query.
listFilter(userId) == [f \in {"userId"} |-> userId]

\* getAllUserFiles: the distinct file names of the matches and the number of
\* matches counted (`if (match.metadata?.fileName)`).
getAllUserFiles(matches) ==
    LET named == {m \in matches : m.metadata.fileName # <<>>}
    IN  [files |-> {m.metadata.fileName : m \in named}, totalChunks |-> Cardinality(named)]

Response(status, error, details) ==
    [status |-> status, error |-> error, details |-> details, chunksCreated |-> 0,
     sources |-> {}, files |-> {}, count |-> 0, totalChunks |-> 0]

NoResponse == Response(0, <<>>, <<>>)

\* The upload handler's answer to a failure of processPDFToChunks.
processingErrorResponse(message) ==
    Response(400,
             IF Includes(message, "ENOENT") /\ Includes(message, "test")
             THEN <<"PDF processing library configuration issue">>
             ELSE IF Includes(message, "password")
             THEN <<"Password protected PDF">>
             ELSE IF Includes(message, "No text content")
             THEN <<"No extractable text found">>
             ELSE <<"Failed to process PDF">>,
             message)

\* The upload handler up to its first embedding call: the answer it returns at
\* once, or the chunks whose texts it sends to generateEmbeddings.
uploadPrepare(userId, file, env, timestamp) ==
    LET none == [response |-> NoResponse, fileName |-> <<>>, pdfChunks |-> <<>>,
                 parserCalls |-> 0]
    IN  IF ~file.present
        THEN [none EXCEPT !.response = Response(400, <<"No file provided">>, <<>>)]
        ELSE IF file.type # "application/pdf"
        THEN [none EXCEPT !.response = Response(400, <<"Only PDF files are allowed">>, <<>>)]
        ELSE IF file.buffer.size > maxSize
        THEN [none EXCEPT !.response =
                  Response(400, <<"File too large. Maximum size is 10MB">>, <<>>)]
        ELSE LET fileName == sanitize(file.name)
                 pdfValidation == validatePDFBuffer(file.buffer)
             IN  IF ~pdfValidation.isValid
                 THEN [none EXCEPT !.fileName = fileName,
                                   !.response = Response(400, <<"Invalid PDF", " file">>,
                                                         pdfValidation.error)]
                 ELSE With(processPDFToChunks(file.buffer, 1000, 200, env), LAMBDA processed :
                          IF ~processed.ok
                          THEN [none EXCEPT !.fileName = fileName,
                                            !.parserCalls = processed.parserCalls,
                                            !.response = processingErrorResponse(processed.error)]
                          ELSE IF Len(processed.chunks) = 0
                          THEN [none EXCEPT !.fileName = fileName,
                                            !.parserCalls = processed.parserCalls,
                                            !.response = processingErrorResponse(
                                                <<"No text content",
                                                  " could be extracted from the PDF">>)]
                          ELSE [response |-> NoResponse,
                                fileName |-> fileName,
                                parserCalls |-> processed.parserCalls,
                                pdfChunks |->
                                    [i \in DOMAIN processed.chunks |->
                                        pdfChunkOf(userId, fileName, processed.chunks[i],
                                                   i - 1, timestamp)]])

\* String.prototype.substring(0, n) + (length > n ? "..." : ""), as its length.
previewLength(text, n) == Min(strLength(text), n) + (IF strLength(text) > n THEN 3 ELSE 0)

\* The query handler: the source shown for a retrieved chunk.
sourceOf(chunk) ==
    [contentLength |-> previewLength(chunk.text, 200),
     fileName |-> chunk.metadata.fileName,
     pageNumber |-> chunk.metadata.pageNumber]

\* queryVectors: the QueryResult built for a match.
queryResultOf(match) ==
    [id |-> match.id, text |-> match.metadata.text,
     metadata |-> [userId |-> match.metadata.userId,
                   fileName |-> match.metadata.fileName,
                   pageNumber |-> match.metadata.pageNumber,
                   chunkIndex |-> match.metadata.chunkIndex,
                   uploadedAt |-> match.metadata.uploadedAt]]

\* The catch block of the query handler.
queryErrorResponse(message) ==
    IF Includes(message, "overloaded")
    THEN Response(503, <<"The AI service is currently experiencing high demand. Please try again in a few moments.">>, <<>>)
    ELSE IF Includes(message, "Rate limit exceeded")
    THEN Response(429, <<"Too many requests. Please wait a moment before trying again.">>, <<>>)
    ELSE IF Includes(message, "API key not valid")
    THEN Response(500, <<"Configuration error. Please contact support.">>, <<>>)
    ELSE IF Includes(message, "Failed to generate response")
    THEN Response(500, <<"Unable to generate a response at this time. Please try again.">>, <<>>)
    ELSE Response(500, message, <<>>)

(***************************************************************************)
(* Inputs                                                                  *)
(***************************************************************************)

\* Number of requests accepted in one run.
MaxRequests == 3

\* Largest clock value.
MaxClock == 1

Users == {<<"A">>, <<"B">>}

OneChunkText == <<Word("intro.", 20, TRUE, TRUE)>>

TwoChunkText == <<Word("First.", 600, TRUE, TRUE), Sp(1), Word("Second.", 600, TRUE, TRUE)>>

Buffer(size, head, kind, text) == [size |-> size, head |-> head, kind |-> kind, text |-> text]

NoBuffer == Buffer(0, <<>>, "none", <<>>)

Buffers ==
    { Buffer(0, <<>>, "garbage", <<>>),
      Buffer(3, <<"%", "P", "D">>, "garbage", <<>>),
      Buffer(200, <<"G", "I", "F", "8">>, "garbage", <<>>),
      Buffer(200, <<"G", "I", "F", "8">>, "text", OneChunkText),
      Buffer(50, PdfMagic, "text", OneChunkText),
      Buffer(200, PdfMagic, "garbage", <<>>),
      Buffer(200, PdfMagic, "encrypted", <<>>),
      Buffer(200, PdfMagic, "text", <<>>),
      Buffer(200, PdfMagic, "text", <<Sp(3)>>),
      Buffer(200, PdfMagic, "text", <<Ctl(2)>>),
      Buffer(200, PdfMagic, "text", OneChunkText),
      Buffer(2000, PdfMagic, "text", TwoChunkText),
      Buffer(10485761, PdfMagic, "text", OneChunkText) }

File(name, type, buffer) == [present |-> TRUE, name |-> name, type |-> type, buffer |-> buffer]

NoFile == [present |-> FALSE, name |-> <<>>, type |-> "", buffer |-> NoBuffer]

Files ==
    {NoFile}
        \cup {File(<<"a">>, "application/pdf", b) : b \in Buffers}
        \cup {File(<<"b", " ">>, "application/pdf", Buffer(200, PdfMagic, "text", OneChunkText)),
              File(<<"a">>, "text/plain", Buffer(200, PdfMagic, "text", OneChunkText))}

\* Uploaded files that differ in their names only: a plain name, a name with a
\* character the handler replaces, and the empty name.
NamedFiles ==
    {File(name, "application/pdf", Buffer(200, PdfMagic, "text", OneChunkText)) :
        name \in {<<"a">>, <<"b", " ">>, <<>>}}

Envs == {"ok", "enoent"}

\* Numbers of chunks of the long documents: one, two and three upsert batches.
DocSizes == {1, batchSize, batchSize + 1, 2 * batchSize + 1}

\* The pdfChunks the upload handler builds for a document of n chunks of one
\* 990-character sentence each.
LongChunks(userId, fileName, n, timestamp) ==
    [i \in 1..n |->
        pdfChunkOf(userId, fileName,
                   [text |-> <<Word("S" \o ToString(i) \o ".", 990, TRUE, TRUE)>>,
                    pageNumber |-> Max(1, CeilDiv(990 * i, avgCharsPerPage)),
                    chunkIndex |-> i - 1],
                   i - 1, timestamp)]

ProviderDimensions == {EmbeddingDimension, EmbeddingDimension - 256}

\* The `question` field of the query body.
Questions ==
    { [present |-> FALSE, isString |-> FALSE, value |-> <<>>],
      [present |-> TRUE, isString |-> FALSE, value |-> <<>>],
      [present |-> TRUE, isString |-> TRUE, value |-> <<>>],
      [present |-> TRUE, isString |-> TRUE, value |-> <<Sp(2)>>],
      [present |-> TRUE, isString |-> TRUE, value |-> <<Word("why?", 4, FALSE, TRUE)>>] }

\* The fileName query parameter of DELETE.
FileNameParams ==
    { [present |-> FALSE, value |-> <<>>],
      [present |-> TRUE, value |-> <<>>],
      [present |-> TRUE, value |-> <<"a">>],
      [present |-> TRUE, value |-> <<"b", "_">>] }

NoExtract == [ok |-> FALSE, text |-> <<>>, error |-> <<>>, parserCalls |-> 0]

\* A call of a library function: its arguments and what it returned or threw.
Call(text, chunkSize, overlap, ok, chunks, error) ==
    [text |-> text, chunkSize |-> chunkSize, overlap |-> overlap,
     ok |-> ok, chunks |-> chunks, error |-> error]

NoCall == Call(<<>>, 0, 0, FALSE, <<>>, <<>>)

\* A sentence of n words of len characters each: the first begins with a capital,
\* the last ends with a full stop.
Sentence(tag, n, len) ==
    [i \in 1..(2 * n - 1) |->
        IF i % 2 = 0 THEN Sp(1)
        ELSE Word(tag \o ToString((i + 1) \div 2), len, i = 1, i = 2 * n - 1)]

\* Texts handed to splitTextIntoChunks.
SplitTexts ==
    { <<>>,
      <<Sp(2)>>,
      <<Ctl(1)>>,
      Sentence("Hi", 1, 3),
      <<Sp(1)>> \o Sentence("Hi", 1, 3) \o <<Sp(2)>>,
      Sentence("Aa", 1, 60) \o <<Sp(1)>> \o Sentence("Bb", 1, 60) \o <<Sp(2)>>
          \o Sentence("Cc", 1, 60),
      Sentence("Long", 1, 150) \o <<Sp(1)>> \o Sentence("Bb", 1, 60),
      Sentence("Aa", 1, 60) \o <<Sp(1), Word("bb.", 60, FALSE, TRUE)>>,
      Sentence("Aa", 8, 10) \o <<Sp(1)>> \o Sentence("Bb", 8, 10) \o <<Sp(1)>>
          \o Sentence("Cc", 8, 10),
      Sentence("Pa", 1, 1300) \o <<Sp(1)>> \o Sentence("Pb", 1, 1300) \o <<Sp(1)>>
          \o Sentence("Pc", 1, 1300) \o <<Sp(1)>> \o Sentence("Pd", 1, 1300) }

\* A sentence of the older splitter: n words of len characters and a full stop.
LegacySentence(tag, n, len) ==
    [i \in 1..(2 * n) |->
        IF i = 2 * n THEN Punct(1)
        ELSE IF i % 2 = 0 THEN Sp(1)
        ELSE Word(tag \o ToString((i + 1) \div 2), len, i = 1, FALSE)]

\* Texts handed to the older splitTextIntoChunks.
LegacyTexts ==
    { <<>>,
      <<Sp(2)>>,
      <<Punct(3)>>,
      <<Punct(1), Sp(1), Punct(2)>>,
      LegacySentence("Hi", 1, 2),
      LegacySentence("Aa", 1, 60) \o <<Sp(1)>> \o LegacySentence("Bb", 1, 60) \o <<Sp(2)>>
          \o LegacySentence("Cc", 1, 60),
      LegacySentence("Aa", 8, 10) \o <<Sp(1)>> \o LegacySentence("Bb", 8, 10) \o <<Sp(1)>>
          \o LegacySentence("Cc", 8, 10),
      LegacySentence("Pa", 1, 2100) \o <<Sp(1)>> \o LegacySentence("Pb", 1, 2100)
          \o <<Sp(1)>> \o LegacySentence("Pc", 1, 2100) }

\* The arguments of a generateChunkId call and the value Date.now() returns in it.
IdArgs ==
    [userId : {<<"A">>, <<"A", "-", "b">>},
     fileName : {<<"a">>, <<"b", "-", "a">>, <<"a", " ", "b">>, <<"a", "_", "b">>},
     chunkIndex : {0, 1, 10},
     timestamp : {0, 1}]

NoIdCall == [a |-> <<>>, b |-> <<>>, idA |-> <<>>, idB |-> <<>>,
             legacyA |-> <<>>, legacyB |-> <<>>]

\* The (chunkSize, overlap) arguments of a call.
ParamPairs ==
    { <<100, 0>>, <<100, 12>>, <<100, 99>>, <<1000, 200>>, <<10000, 0>>,
      <<99, 0>>, <<10001, 0>>, <<100, -1>>, <<100, 100>>, <<50, 60>> }

Fresh ==
    [op |-> "none", pc |-> "idle", userId |-> <<>>, fileName |-> <<>>, buffer |-> NoBuffer,
     pdfChunks |-> <<>>, embState |-> <<>>, values |-> <<>>, order |-> <<>>,
     embeddings |-> <<>>, offset |-> 0,
     written |-> {}, filters |-> {}, matches |-> {}, response |-> NoResponse,
     extracted |-> NoExtract, parserCalls |-> 0, embedCalls |-> <<>>, storeCalls |-> 0,
     call |-> NoCall, removed |-> {}, genCalls |-> 0, idCall |-> NoIdCall, env |-> "ok",
     flushes |-> <<>>, acked |-> <<>>]

IngInit ==
    /\ store = {}
    /\ now = 0
    /\ req = Fresh
    /\ started = 0

Accept ==
    /\ req.op = "none"
    /\ started < MaxRequests
    /\ started' = started + 1

\* POST /api/upload, up to the point where generateEmbeddings has issued one
\* generateEmbedding call per chunk text.
UploadStart ==
    /\ Accept
    /\ \E userId \in Users, file \in Files, env \in Envs :
      \E p \in {uploadPrepare(userId, file, env, now)} :
        LET base == [Fresh EXCEPT !.op = "upload", !.userId = userId, !.buffer = file.buffer,
                                  !.fileName = p.fileName, !.parserCalls = p.parserCalls]
        IN  req' = (IF p.response # NoResponse
                THEN [base EXCEPT !.pc = "done", !.response = p.response]
                ELSE [base EXCEPT !.pc = "embedding",
                                  !.pdfChunks = p.pdfChunks,
                                  !.embState = [i \in DOMAIN p.pdfChunks |-> "pending"],
                                  !.values = [i \in DOMAIN p.pdfChunks |-> NoVector],
                                  !.embedCalls = [i \in DOMAIN p.pdfChunks |-> 1]])
    /\ UNCHANGED <<store, now, genVars, extVars>>

\* POST /api/upload of one of the files of NamedFiles, up to the point where
\* generateEmbeddings has issued one generateEmbedding call per chunk text.
UploadNamed ==
    /\ Accept
    /\ \E userId \in Users, file \in NamedFiles :
      \E p \in {uploadPrepare(userId, file, "ok", now)} :
        LET base == [Fresh EXCEPT !.op = "upload", !.userId = userId, !.buffer = file.buffer,
                                  !.fileName = p.fileName, !.parserCalls = p.parserCalls]
        IN  req' = (IF p.response # NoResponse
                THEN [base EXCEPT !.pc = "done", !.response = p.response]
                ELSE [base EXCEPT !.pc = "embedding",
                                  !.pdfChunks = p.pdfChunks,
                                  !.embState = [i \in DOMAIN p.pdfChunks |-> "pending"],
                                  !.values = [i \in DOMAIN p.pdfChunks |-> NoVector],
                                  !.embedCalls = [i \in DOMAIN p.pdfChunks |-> 1]])
    /\ UNCHANGED <<store, now, genVars, extVars>>

\* Variant of embeddingsRejected that goes on to upsertVectors with the values
\* that did arrive.
embeddingsRejectedIgnored(r) ==
    [r EXCEPT !.pc = "upserting", !.embeddings = r.values, !.offset = 0, !.storeCalls = 1]

\* The upload handler's catch around generateEmbeddings: nothing of the batch is
\* kept and the handler answers 500.
embeddingsRejected(r) ==
    [r EXCEPT !.pc = "done",
              !.response = Response(500, <<"Failed to generate embeddings">>,
                                    <<"Failed to generate embeddings">>)]

AllOk(state) == \A i \in DOMAIN state : state[i] = "ok"

\* One generateEmbedding call of the batch resolves. When it is the last one,
\* Promise.all resolves and upsertVectors sends its first batch.
EmbedResolve ==
    /\ req.op = "upload" /\ req.pc = "embedding"
    /\ \E i \in DOMAIN req.embState, dim \in ProviderDimensions :
        /\ req.embState[i] = "pending"
        /\ LET v == generateEmbedding(embedContent(req.pdfChunks[i].text, dim))
               state == [req.embState EXCEPT ![i] = "ok"]
               got == [req EXCEPT !.embState = state,
                                  !.values = collect(req.values, i, v),
                                  !.order = Append(@, i)]
           IN  req' = (IF AllOk(state)
                   THEN [got EXCEPT !.pc = "upserting", !.embeddings = got.values,
                                    !.offset = 0, !.storeCalls = 1]
                   ELSE got)
    /\ UNCHANGED <<store, now, started, genVars, extVars>>

\* One generateEmbedding call of the batch rejects: Promise.all rejects,
\* generateEmbeddings throws and the handler answers 500.
EmbedReject ==
    /\ req.op = "upload" /\ req.pc = "embedding"
    /\ \E i \in DOMAIN req.embState :
        /\ req.embState[i] = "pending"
        /\ req' = embeddingsRejected([req EXCEPT !.embState[i] = "failed"])
    /\ UNCHANGED <<store, now, started, genVars, extVars>>

\* A call of a batch that has already failed settles: its outcome is dropped.
EmbedSettleLate ==
    /\ req.op = "upload" /\ req.pc = "done"
    /\ \E i \in DOMAIN req.embState, outcome \in {"ok", "failed"} :
        /\ req.embState[i] = "pending"
        /\ req' = ([req EXCEPT !.embState = [req.embState EXCEPT ![i] = outcome]])
    /\ UNCHANGED <<store, now, started, genVars, extVars>>

\* POST /api/upload of a long document, from `await upsertVectors(pdfChunks,
\* embeddings)` on: generateEmbeddings has resolved with one vector per chunk and
\* upsertVectors sends its first batch.
UpsertStart ==
    /\ Accept
    /\ \E userId \in Users, n \in DocSizes :
      \E pdfChunks \in {LongChunks(userId, sanitize(<<"a">>), n, now)} :
      \E embeddings \in {[i \in DOMAIN pdfChunks |->
                             generateEmbedding(embedContent(pdfChunks[i].text,
                                                            EmbeddingDimension))]} :
        req' = ([Fresh EXCEPT
                   !.op = "upload", !.pc = "upserting", !.userId = userId,
                   !.fileName = sanitize(<<"a">>), !.parserCalls = 1,
                   !.pdfChunks = pdfChunks,
                   !.embState = [i \in DOMAIN pdfChunks |-> "ok"],
                   !.embedCalls = [i \in DOMAIN pdfChunks |-> 1],
                   !.order = [i \in DOMAIN pdfChunks |-> i],
                   !.values = embeddings, !.embeddings = embeddings,
                   !.offset = 0, !.storeCalls = 1])
    /\ UNCHANGED <<store, now, genVars, extVars>>

\* index.upsert(batch) resolves: the loop of upsertVectors sends the next batch,
\* or the handler answers success.
UpsertBatchOk ==
    /\ req.op = "upload" /\ req.pc = "upserting"
    /\ LET batch == batchAt(req.pdfChunks, req.embeddings, req.offset)
           next == req.offset + batchSize
           wrote == [req EXCEPT !.written = @ \cup {batch[j].id : j \in DOMAIN batch},
                                   !.acked = Append(@, [j \in DOMAIN batch |-> batch[j].id]),
                                   !.offset = next]
       IN  /\ store' = backendUpsert(store, batch)
           /\ req' = (IF next < Len(req.pdfChunks)
                  THEN [wrote EXCEPT !.storeCalls = @ + 1]
                  ELSE [wrote EXCEPT !.pc = "done",
                                     !.response =
                                         [Response(200, <<>>, <<>>) EXCEPT
                                             !.chunksCreated = Len(req.pdfChunks)]])
    /\ UNCHANGED <<now, started, genVars, extVars>>

\* Variant of UpsertBatchFail in which the loop goes on after a rejected batch.
UpsertBatchFailSwallowed ==
    /\ req.op = "upload" /\ req.pc = "upserting"
    /\ req' = (IF req.offset + batchSize < Len(req.pdfChunks)
               THEN [req EXCEPT !.offset = @ + batchSize, !.storeCalls = @ + 1]
               ELSE [req EXCEPT !.pc = "done", !.offset = @ + batchSize,
                                !.response = [Response(200, <<>>, <<>>) EXCEPT
                                                 !.chunksCreated = Len(req.pdfChunks)]])
    /\ UNCHANGED <<store, now, started, genVars, extVars>>

\* index.upsert(batch) rejects: upsertVectors throws and the handler answers 500.
UpsertBatchFail ==
    /\ req.op = "upload" /\ req.pc = "upserting"
    /\ req' = ([req EXCEPT !.pc = "done",
                          !.response = Response(500, <<"Failed to store vectors in database">>,
                                                <<"Failed to upsert vectors to Pinecone">>)])
    /\ UNCHANGED <<store, now, started, genVars, extVars>>

\* POST /api/query, up to the generateEmbedding call for the question.
QueryStart ==
    /\ Accept
    /\ \E userId \in Users, question \in Questions :
        LET base == [Fresh EXCEPT !.op = "query", !.userId = userId]
        IN  req' = (IF ~question.present \/ ~question.isString \/ question.value = <<>>
                THEN [base EXCEPT !.pc = "done",
                                  !.response = Response(400, <<"Question is required">>, <<>>)]
                ELSE IF strLength(trim(question.value)) = 0
                THEN [base EXCEPT !.pc = "done",
                                  !.response = Response(400, <<"Question cannot be empty">>, <<>>)]
                ELSE [base EXCEPT !.pc = "embedding", !.embedCalls = <<1>>])
    /\ UNCHANGED <<store, now, genVars, extVars>>

\* The question's generateEmbedding call rejects.
QueryEmbedFail ==
    /\ req.op = "query" /\ req.pc = "embedding"
    /\ req' = ([req EXCEPT !.pc = "done",
                          !.response = queryErrorResponse(<<"Failed to generate embedding">>)])
    /\ UNCHANGED <<store, now, started, genVars, extVars>>

\* The errors generateResponse and generateStreamingResponse can throw.
GenerationErrors(streaming) ==
    {IF streaming THEN generateStreamingResponseError(e).message
                  ELSE generateResponseError(e).message : e \in ProviderErrors}

\* The question's embedding resolves; queryVectors asks the index and the answer
\* is generated from what it returns.
QueryFinish ==
    /\ req.op = "query" /\ req.pc = "embedding"
    /\ LET filter == queryFilter(req.userId)
           asked == [req EXCEPT !.pc = "done", !.storeCalls = 1, !.filters = {filter}]
       IN  \/ req' = ([asked EXCEPT !.response =
                      queryErrorResponse(<<"Failed to query vectors from Pinecone">>)])
           \/ \E found \in backendQuery(store, filter, topKQuery), streaming \in BOOLEAN :
                LET relevantChunks == {queryResultOf(m) : m \in found}
                    answered == [asked EXCEPT !.matches = relevantChunks]
                IN  IF relevantChunks = {}
                    THEN req' = ([answered EXCEPT !.response =
                                 Response(404, <<"No relevant content found. Please upload a PDF document first.">>, <<>>)])
                    ELSE \/ req' = ([answered EXCEPT !.genCalls = 1, !.response =
                                    [Response(200, <<>>, <<>>) EXCEPT !.sources =
                                        IF streaming THEN {}
                                        ELSE {sourceOf(c) : c \in relevantChunks}]])
                         \/ \E message \in GenerationErrors(streaming) :
                                req' = ([answered EXCEPT !.genCalls = 1,
                                                        !.response = queryErrorResponse(message)])
    /\ UNCHANGED <<store, now, started, genVars, extVars>>

\* Variant of DeleteFile without the `if (!fileName)` answer.
DeleteFileUnguarded ==
    /\ Accept
    /\ \E userId \in Users, fileName \in FileNameParams :
        LET base == [Fresh EXCEPT !.op = "delete", !.pc = "done", !.userId = userId,
                                  !.fileName = fileName.value]
            filter == deleteFilter(userId, fileName)
            asked == [base EXCEPT !.storeCalls = 1, !.filters = {filter}]
        IN  IF FALSE
            THEN /\ req' = ([base EXCEPT !.response = Response(400, <<"File name is required">>, <<>>)])
                 /\ UNCHANGED store
            ELSE \/ /\ store' = backendDelete(store, filter)
                    /\ req' = ([asked EXCEPT !.removed = store \ backendDelete(store, filter),
                                             !.response = Response(200, <<>>, <<>>)])
                 \/ /\ UNCHANGED store
                    /\ req' = ([asked EXCEPT !.response =
                               Response(500, <<"Failed to delete file: ",
                                               "Failed to delete vectors from Pinecone">>, <<>>)])
    /\ UNCHANGED <<now, genVars, extVars>>

\* DELETE /api/files?fileName=...
DeleteFile ==
    /\ Accept
    /\ \E userId \in Users, fileName \in FileNameParams :
        LET base == [Fresh EXCEPT !.op = "delete", !.pc = "done", !.userId = userId,
                                  !.fileName = fileName.value]
            filter == deleteFilter(userId, fileName)
            asked == [base EXCEPT !.storeCalls = 1, !.filters = {filter}]
        IN  IF ~fileName.present \/ fileName.value = <<>>
            THEN /\ req' = ([base EXCEPT !.response = Response(400, <<"File name is required">>, <<>>)])
                 /\ UNCHANGED store
            ELSE \/ /\ store' = backendDelete(store, filter)
                    /\ req' = ([asked EXCEPT !.removed = store \ backendDelete(store, filter),
                                             !.response = Response(200, <<>>, <<>>)])
                 \/ /\ UNCHANGED store
                    /\ req' = ([asked EXCEPT !.response =
                               Response(500, <<"Failed to delete file: ",
                                               "Failed to delete vectors from Pinecone">>, <<>>)])
    /\ UNCHANGED <<now, genVars, extVars>>

\* GET /api/files
ListFiles ==
    /\ Accept
    /\ \E userId \in Users :
        LET filter == listFilter(userId)
            asked == [Fresh EXCEPT !.op = "list", !.pc = "done", !.userId = userId,
                                   !.storeCalls = 1, !.filters = {filter}]
        IN  \/ req' = ([asked EXCEPT !.response =
                           Response(500, <<"Failed to get files: ",
                                           "Failed to get user files from Pinecone">>, <<>>)])
            \/ \E found \in backendQuery(store, filter, topKList) :
                    LET fileData == getAllUserFiles(found)
                    IN  req' = ([asked EXCEPT !.response =
                                   [Response(200, <<>>, <<>>) EXCEPT
                                       !.files = fileData.files,
                                       !.count = Cardinality(fileData.files),
                                       !.totalChunks = fileData.totalChunks]])
    /\ UNCHANGED <<store, now, genVars, extVars>>

\* extractTextFromPDF called on a buffer by a caller of the library.
ExtractCall ==
    /\ Accept
    /\ \E buffer \in Buffers, env \in Envs :
        \E ex \in {extractTextFromPDF(buffer, env)} :
            req' = ([Fresh EXCEPT !.op = "extract", !.pc = "done", !.buffer = buffer,
                              !.extracted = ex, !.parserCalls = ex.parserCalls])
    /\ UNCHANGED <<store, now, genVars, extVars>>

\* splitTextIntoChunks(text, chunkSize, overlap) called by a caller of the library.
SplitCall ==
    /\ Accept
    /\ \E text \in SplitTexts, p \in ParamPairs :
        \E chunks \in {splitTextIntoChunks(text, p[1], p[2])} :
            req' = ([Fresh EXCEPT !.op = "split", !.pc = "done",
                                 !.flushes = flushesOf(text, p[1], p[2]),
                                 !.call = Call(text, p[1], p[2], TRUE, chunks, <<>>)])
    /\ UNCHANGED <<store, now, genVars, extVars>>

\* The older splitTextIntoChunks(text, chunkSize, overlap) called by a caller.
LegacySplitCall ==
    /\ Accept
    /\ \E text \in LegacyTexts, p \in ParamPairs :
        \E chunks \in {legacySplitTextIntoChunks(text, p[1], p[2])} :
            req' = ([Fresh EXCEPT !.op = "legacySplit", !.pc = "done",
                                 !.call = Call(text, p[1], p[2], TRUE, chunks, <<>>)])
    /\ UNCHANGED <<store, now, genVars, extVars>>

\* processPDFToChunks(buffer, chunkSize, overlap) called by a caller of the library.
ProcessCall ==
    /\ Accept
    /\ \E buffer \in Buffers, p \in ParamPairs, env \in Envs :
        \E r \in {processPDFToChunks(buffer, p[1], p[2], env)} :
            req' = ([Fresh EXCEPT !.op = "process", !.pc = "done", !.buffer = buffer,
                                 !.env = env,
                                 !.parserCalls = r.parserCalls,
                                 !.call = Call(<<>>, p[1], p[2], r.ok, r.chunks, r.error)])
    /\ UNCHANGED <<store, now, genVars, extVars>>

\* generateChunkId called twice, by both versions of the library.
ChunkIdCall ==
    /\ Accept
    /\ \E a \in IdArgs, b \in IdArgs :
        req' = ([Fresh EXCEPT !.op = "chunkId", !.pc = "done",
                  !.idCall = [a |-> a, b |-> b,
                      idA |-> generateChunkId(a.userId, a.fileName, a.chunkIndex, a.timestamp),
                      idB |-> generateChunkId(b.userId, b.fileName, b.chunkIndex, b.timestamp),
                      legacyA |-> legacyGenerateChunkId(a.userId, a.fileName, a.chunkIndex,
                                                        a.timestamp),
                      legacyB |-> legacyGenerateChunkId(b.userId, b.fileName, b.chunkIndex,
                                                        b.timestamp)]])
    /\ UNCHANGED <<store, now, genVars, extVars>>

\* The response has been sent: the next request can be served.
Release ==
    /\ req.pc = "done"
    /\ req' = (Fresh)
    /\ UNCHANGED <<store, now, started, genVars, extVars>>

\* Time passes.
Tick ==
    /\ now < MaxClock
    /\ now' = now + 1
    /\ UNCHANGED <<store, req, started, genVars, extVars>>

IngNext ==
    \/ UploadStart
    \/ EmbedResolve
    \/ EmbedReject
    \/ EmbedSettleLate
    \/ UpsertBatchOk
    \/ UpsertBatchFail
    \/ QueryStart
    \/ QueryEmbedFail
    \/ QueryFinish
    \/ DeleteFile
    \/ ExtractCall
    \/ Release
    \/ Tick

GenInit ==
    /\ gpc = "idle"
    /\ gmode = "sync"
    /\ modelIdx = 1
    /\ attempt = 1
    /\ lastError = NoValue
    /\ calls = <<>>
    /\ delays = <<>>
    /\ inflight = {}
    /\ gresult = NoValue
    /\ surfaced = NoValue
    /\ out = <<>>
    /\ provider = "none"
    /\ yielded = 0

\* generateResponse / generateStreamingResponse is called: the first model's
\* first attempt is issued.
GenStart ==
    /\ gpc = "idle"
    /\ \E m \in {"sync", "stream"} : gmode' = m
    /\ gpc' = "calling"
    /\ modelIdx' = 1
    /\ attempt' = 1
    /\ lastError' = NoValue
    /\ inflight' = inflight \cup {<<1, 1>>}
    /\ UNCHANGED <<calls, delays, gresult, surfaced, out, provider, yielded, ingVars, extVars>>

\* The awaited model call resolves: retryWithBackoff and generateWithFallback return.
CallSucceeds ==
    /\ gpc = "calling"
    /\ calls' = Append(calls, [model |-> modelIdx, attempt |-> attempt, ok |-> TRUE, error |-> NoValue])
    /\ inflight' = inflight \ {<<modelIdx, attempt>>}
    /\ gresult' = [model |-> modelNames[modelIdx]]
    /\ IF gmode = "sync"
       THEN gpc' = "done" /\ UNCHANGED provider
       ELSE gpc' = "streaming" /\ provider' = "open"
    /\ UNCHANGED <<gmode, modelIdx, attempt, lastError, delays, surfaced, out, yielded, ingVars, extVars>>

\* The awaited model call rejects with a retryable error before the last attempt:
\* retryWithBackoff starts its wait.
CallFailsRetry ==
    /\ gpc = "calling"
    /\ \E error \in ProviderErrors :
        /\ ~retryGivesUp(attempt, error)
        /\ calls' = Append(calls, [model |-> modelIdx, attempt |-> attempt, ok |-> FALSE, error |-> error])
        /\ delays' = Append(delays, [model |-> modelIdx, attempt |-> attempt,
                                     delay |-> backoffDelay(attempt)])
    /\ inflight' = inflight \ {<<modelIdx, attempt>>}
    /\ gpc' = "backoff"
    /\ UNCHANGED <<gmode, modelIdx, attempt, lastError, gresult, surfaced, out, provider, yielded, ingVars, extVars>>

\* The wait ends: the loop of retryWithBackoff issues the next attempt.
BackoffElapsed ==
    /\ gpc = "backoff"
    /\ attempt' = attempt + 1
    /\ inflight' = inflight \cup {<<modelIdx, attempt + 1>>}
    /\ gpc' = "calling"
    /\ UNCHANGED <<gmode, modelIdx, lastError, calls, delays, gresult, surfaced, out, provider, yielded, ingVars, extVars>>

\* The call rejects and retryWithBackoff rethrows; generateWithFallback records the
\* error and goes on to the next model.
CallFailsFallback ==
    /\ gpc = "calling"
    /\ nextModel(modelIdx) \in DOMAIN modelNames
    /\ \E error \in ProviderErrors :
        /\ retryGivesUp(attempt, error)
        /\ calls' = Append(calls, [model |-> modelIdx, attempt |-> attempt, ok |-> FALSE, error |-> error])
        /\ lastError' = error
    /\ modelIdx' = nextModel(modelIdx)
    /\ attempt' = 1
    /\ inflight' = (inflight \ {<<modelIdx, attempt>>}) \cup {<<nextModel(modelIdx), 1>>}
    /\ UNCHANGED <<gpc, gmode, delays, gresult, surfaced, out, provider, yielded, ingVars, extVars>>

\* The call rejects, retryWithBackoff rethrows and no model is left:
\* generateWithFallback throws lastError and the caller's catch block rewrites it.
CallFailsExhausted ==
    /\ gpc = "calling"
    /\ nextModel(modelIdx) \notin DOMAIN modelNames
    /\ \E error \in ProviderErrors :
        /\ retryGivesUp(attempt, error)
        /\ calls' = Append(calls, [model |-> modelIdx, attempt |-> attempt, ok |-> FALSE, error |-> error])
        /\ lastError' = error
        /\ surfaced' = IF gmode = "sync"
                       THEN generateResponseError(error)
                       ELSE generateStreamingResponseError(error)
    /\ inflight' = inflight \ {<<modelIdx, attempt>>}
    /\ gpc' = "failed"
    /\ UNCHANGED <<gmode, modelIdx, attempt, delays, gresult, out, provider, yielded, ingVars, extVars>>

\* for await: the provider stream yields a chunk (its text may be empty).
StreamChunk ==
    /\ gpc = "streaming"
    /\ yielded < MaxStreamChunks
    /\ \E text \in {"", "t"} : out' = onChunk(out, text)
    /\ yielded' = yielded + 1
    /\ UNCHANGED <<gpc, gmode, modelIdx, attempt, lastError, calls, delays, inflight,
                   gresult, surfaced, provider, ingVars, extVars>>

\* for await: the provider stream completes; controller.close().
StreamEnd ==
    /\ gpc = "streaming"
    /\ provider' = "ended"
    /\ out' = onComplete(out)
    /\ gpc' = "closed"
    /\ UNCHANGED <<gmode, modelIdx, attempt, lastError, calls, delays, inflight,
                   gresult, surfaced, yielded, ingVars, extVars>>

\* for await: the provider stream throws; controller.error(error).
StreamFail ==
    /\ gpc = "streaming"
    /\ provider' = "failed"
    /\ out' = onError(out)
    /\ gpc' = "errored"
    /\ UNCHANGED <<gmode, modelIdx, attempt, lastError, calls, delays, inflight,
                   gresult, surfaced, yielded, ingVars, extVars>>

GenNext ==
    \/ GenStart
    \/ CallSucceeds
    \/ CallFailsRetry
    \/ BackoffElapsed
    \/ CallFailsFallback
    \/ CallFailsExhausted
    \/ StreamChunk
    \/ StreamEnd
    \/ StreamFail

\* Calls of the library functions.
TextNext ==
    \/ SplitCall
    \/ LegacySplitCall
    \/ ProcessCall
    \/ ChunkIdCall
    \/ Release

\* Uploads of long documents.
BatchNext ==
    \/ UpsertStart
    \/ UpsertBatchOk
    \/ UpsertBatchFail
    \/ Release

\* Uploads, deletions and listings of files.
FilesNext ==
    \/ UploadNamed
    \/ EmbedResolve
    \/ EmbedReject
    \/ UpsertBatchOk
    \/ UpsertBatchFail
    \/ DeleteFile
    \/ ListFiles
    \/ Release

(***************************************************************************)
(* Part III.  The multi-strategy extractor                                 *)
(***************************************************************************)

\* Number of extractTextFromPDF calls in one run.
MaxExtractions == 2

Extractions == 1..MaxExtractions

\* process.cwd() when the server starts, and os.tmpdir().
AppDir == "app"

TmpDir == "tmp"

\* result.text.trim().length > 0
nonBlank(text) == text # <<>> /\ strLength(trim(text)) > 0

\* Variant of afterParse that goes on to the raw-stream heuristic whatever the
\* parser gave.
afterParseAlwaysBasic(data) == "basic"

\* extractTextFromPDF after Strategy 1: return its text, try the workaround (the
\* parser threw the ENOENT error on its test file), or go on to Strategy 2.
afterParse(data) ==
    IF data.ok
    THEN IF nonBlank(data.text) THEN "return" ELSE "basic"
    ELSE IF Includes(data.error, "ENOENT") /\ Includes(data.error, "test")
    THEN "workaround"
    ELSE "basic"

\* extractTextFromPDF after the workaround: return its text or go on to Strategy 2.
afterWorkaround(data) == IF data.ok /\ nonBlank(data.text) THEN "return" ELSE "basic"

\* extractBasicText on the readable text of the buffer's stream objects.
extractBasicText(raw) ==
    With(trim(collapseWhitespace(raw)), LAMBDA extractedText :
        IF strLength(extractedText) < 50
        THEN [ok |-> FALSE, text |-> <<>>,
              error |-> <<"Insufficient text extracted using basic method">>]
        ELSE [ok |-> TRUE, text |-> extractedText, error |-> <<>>])

\* The error thrown when no strategy returned text, as rethrown by the outer catch.
allMethodsFailed ==
    <<"PDF text extraction failed: ",
      "Failed to extract text from PDF using all available methods. ",
      "The PDF might be password protected, corrupted, or contain only images.">>

\* One strategy call of an extraction: what it returned or threw.
Tried(strategy, data) ==
    [strategy |-> strategy, ok |-> data.ok, text |-> data.text, error |-> data.error]

NoResult == [ok |-> FALSE, text |-> <<>>, error |-> <<>>]

IdleExtraction ==
    [pc |-> "idle", buffer |-> NoBuffer, raw |-> <<>>, originalCwd |-> "",
     trace |-> <<>>, result |-> NoResult]

\* Strategy 2 and the end of extractTextFromPDF, for an extraction whose earlier
\* strategies are in its trace.
finishWithBasic(x) ==
    With(extractBasicText(x.raw), LAMBDA basic :
        [x EXCEPT !.pc = "done",
                  !.trace = Append(@, Tried("basic", basic)),
                  !.result = IF basic.ok /\ nonBlank(basic.text)
                             THEN [ok |-> TRUE, text |-> basic.text, error |-> <<>>]
                             ELSE [ok |-> FALSE, text |-> <<>>, error |-> allMethodsFailed]])

\* The extraction returns the text of the strategy that has just settled.
finishWithText(x, strategy, data) ==
    [x EXCEPT !.pc = "done",
              !.trace = Append(@, Tried(strategy, data)),
              !.result = [ok |-> TRUE, text |-> data.text, error |-> <<>>]]

\* The buffers handed to the extractor, each with the readable text of its
\* stream objects.
ExtInputs ==
    { <<Buffer(0, <<>>, "garbage", <<>>), <<>>>>,
      <<Buffer(200, <<"G", "I", "F", "8">>, "text", OneChunkText), <<>>>>,
      <<Buffer(200, PdfMagic, "encrypted", <<>>), <<>>>>,
      <<Buffer(200, PdfMagic, "text", <<Sp(3)>>), <<Word("raw", 60, FALSE, FALSE)>>>>,
      <<Buffer(200, PdfMagic, "text", OneChunkText), <<Word("raw", 20, FALSE, FALSE)>>>>,
      <<Buffer(200, PdfMagic, "text", OneChunkText),
        <<Sp(2), Word("raw", 60, FALSE, FALSE), Sp(1)>>>> }

ExtInit ==
    /\ cwd = AppDir
    /\ ext = [e \in Extractions |-> IdleExtraction]

\* extractTextFromPDF(buffer) is called: the buffer is checked and Strategy 1
\* calls the parser.
ExtStart ==
    /\ \E e \in Extractions, input \in ExtInputs :
        /\ ext[e].pc = "idle"
        /\ LET x == [ext[e] EXCEPT !.buffer = input[1], !.raw = input[2]]
           IN  ext' = [ext EXCEPT ![e] =
                   IF input[1].size = 0
                   THEN [x EXCEPT !.pc = "done", !.result =
                            [ok |-> FALSE, text |-> <<>>,
                             error |-> <<"PDF text extraction failed: ",
                                         "Invalid or empty PDF buffer">>]]
                   ELSE IF headerOf(input[1]) # PdfMagic
                   THEN [x EXCEPT !.pc = "done", !.result =
                            [ok |-> FALSE, text |-> <<>>,
                             error |-> <<"PDF text extraction failed: ",
                                         "Invalid PDF", " file: Missing PDF header">>]]
                   ELSE [x EXCEPT !.pc = "parse"]]
    /\ UNCHANGED <<cwd, genVars, ingVars>>

\* The parser call of extractWithPdfParse settles. On the ENOENT error
\* extractWithWorkaround saves process.cwd(), changes to os.tmpdir() and calls
\* the parser again.
ParseSettles ==
    /\ \E e \in Extractions, env \in Envs :
        /\ ext[e].pc = "parse"
        /\ \E data \in {pdfParse(ext[e].buffer, env)} :
           \E step \in {afterParse(data)} :
            IF step = "return"
            THEN /\ ext' = [ext EXCEPT ![e] = finishWithText(ext[e], "pdf-parse", data)]
                 /\ UNCHANGED cwd
            ELSE IF step = "workaround"
            THEN /\ ext' = [ext EXCEPT ![e] =
                               [ext[e] EXCEPT !.pc = "workaround",
                                              !.trace = Append(@, Tried("pdf-parse", data)),
                                              !.originalCwd = cwd]]
                 /\ cwd' = TmpDir
            ELSE /\ ext' = [ext EXCEPT ![e] =
                               finishWithBasic([ext[e] EXCEPT
                                   !.trace = Append(@, Tried("pdf-parse", data))])]
                 /\ UNCHANGED cwd
    /\ UNCHANGED <<genVars, ingVars>>

\* The parser call of extractWithWorkaround settles: the finally block restores
\* the saved directory, and the extraction returns or goes on to Strategy 2.
WorkaroundSettles ==
    /\ \E e \in Extractions, env \in Envs :
        /\ ext[e].pc = "workaround"
        /\ cwd' = ext[e].originalCwd
        /\ \E data \in {pdfParse(ext[e].buffer, env)} :
            ext' = [ext EXCEPT ![e] =
                       IF afterWorkaround(data) = "return"
                       THEN finishWithText(ext[e], "workaround", data)
                       ELSE finishWithBasic([ext[e] EXCEPT
                                !.trace = Append(@, Tried("workaround", data))])]
    /\ UNCHANGED <<genVars, ingVars>>

ExtNext ==
    \/ ExtStart
    \/ ParseSettles
    \/ WorkaroundSettles

Init == GenInit /\ IngInit /\ ExtInit

Next == IngNext

Spec == Init /\ [][Next]_vars

SpecGen == Init /\ [][GenNext]_vars

SpecText == Init /\ [][TextNext]_vars

SpecBatch == Init /\ [][BatchNext]_vars

SpecFiles == Init /\ [][FilesNext]_vars

SpecExtract == Init /\ [][ExtNext]_vars

(***************************************************************************)
(* Properties                                                              *)
(***************************************************************************)

\* ---- C1 ----------------------------------------------------------------

\* The request being served is a query that has asked the index.
QueryAsked == req.op = "query" /\ req.storeCalls > 0

\* C1: tenant isolation. A query asks the index with an equality filter on the
\* caller's userId and returns no chunk whose userId differs from the caller's;
\* every record an ingest adds to the index carries the ingesting caller's userId.
C1_TenantIsolation ==
    /\ [](QueryAsked =>
            /\ req.filters # {}
            /\ \A f \in req.filters : "userId" \in DOMAIN f /\ f["userId"] = req.userId
            /\ \A m \in req.matches : m.metadata.userId = req.userId)
    /\ [][\A rec \in store' \ store :
              req.op = "upload" /\ rec.metadata.userId = req.userId]_vars

\* A query returned chunks while the index also held another tenant's records.
C1_Witness ==
    /\ QueryAsked
    /\ req.matches # {}
    /\ \E rec \in store : rec.metadata.userId # req.userId

\* ---- C2 ----------------------------------------------------------------

\* The settled call c failed with status 503 or 429 or a message containing
\* "overloaded".
RetryableFailure(c) ==
    /\ ~c.ok
    /\ \/ c.error.status = 503
       \/ c.error.status = 429
       \/ Includes(c.error.message, "overloaded")

\* The calls made on model m, settled or in flight.
AttemptsOn(m) ==
    Cardinality({i \in DOMAIN calls : calls[i].model = m})
        + Cardinality({f \in inflight : f[1] = m})

\* The waits retryWithBackoff made for model m.
RetriesOn(m) == Cardinality({j \in DOMAIN delays : delays[j].model = m})

\* C2: a model is attempted at most 3 times; a further attempt on the same model
\* follows only a retryable failure; when attempt k succeeds the result is that
\* model's, k - 1 retries were made and no other call follows.
C2_BoundedRetry ==
    /\ \A m \in DOMAIN modelNames : AttemptsOn(m) <= 3
    /\ \A i \in DOMAIN calls :
           i > 1 /\ calls[i].model = calls[i - 1].model => RetryableFailure(calls[i - 1])
    /\ \A f \in inflight :
           calls # <<>> /\ Last(calls).model = f[1] => RetryableFailure(Last(calls))
    /\ \A i \in DOMAIN calls :
           calls[i].ok =>
               /\ i = Len(calls) /\ inflight = {}
               /\ gresult = [model |-> modelNames[calls[i].model]]
               /\ calls[i].attempt <= 3
               /\ RetriesOn(calls[i].model) = calls[i].attempt - 1
               /\ AttemptsOn(calls[i].model) = calls[i].attempt

\* The first model failed retryably twice and succeeded on its third attempt.
C2_Witness ==
    /\ Len(calls) = 3
    /\ calls[3].ok /\ calls[3].model = 1 /\ calls[3].attempt = 3
    /\ RetriesOn(1) = 2

\* ---- C3 ----------------------------------------------------------------

\* The settled call c ended its model's retry loop with a failure.
GaveUp(c) == ~c.ok /\ (c.attempt = 3 \/ ~RetryableFailure(c))

\* C3: after a model's third retryable failure, or any non-retryable failure,
\* the next call is the first attempt on the next model of the list; the failed
\* model is not attempted again; at most one model call is in flight.
C3_FallbackInOrder ==
    /\ Cardinality(inflight) <= 1
    /\ \A i \in DOMAIN calls :
           GaveUp(calls[i]) =>
               /\ \A j \in DOMAIN calls : j > i => calls[j].model > calls[i].model
               /\ \A f \in inflight : f[1] > calls[i].model
               /\ i < Len(calls) =>
                      calls[i + 1].model = calls[i].model + 1 /\ calls[i + 1].attempt = 1
               /\ i = Len(calls) /\ calls[i].model < Len(modelNames) =>
                      inflight = {<<calls[i].model + 1, 1>>}
               /\ RetryableFailure(calls[i]) => AttemptsOn(calls[i].model) = 3
    /\ \A i \in DOMAIN calls :
           i > 1 /\ calls[i].model # calls[i - 1].model => GaveUp(calls[i - 1])
    /\ \A f \in inflight :
           calls # <<>> /\ Last(calls).model # f[1] => GaveUp(Last(calls))

\* The first model used up its 3 attempts on retryable failures and the second
\* model answered on its first attempt.
C3_Witness ==
    /\ Len(calls) = 4
    /\ \A i \in 1..3 : calls[i].model = 1 /\ RetryableFailure(calls[i])
    /\ calls[4].model = 2 /\ calls[4].attempt = 1 /\ calls[4].ok
    /\ gresult = [model |-> modelNames[2]]

\* ---- C4 ----------------------------------------------------------------

\* Every model of the list has been given up on.
AllModelsExhausted ==
    /\ gpc = "failed"
    /\ \A m \in DOMAIN modelNames : \E i \in DOMAIN calls : calls[i].model = m /\ GaveUp(calls[i])

\* C4: when every model is exhausted the error handed to the caller carries the
\* failure of the final attempt on the last model, as itself or as its cause.
C4_SurfacedCarriesCause ==
    AllModelsExhausted =>
        \/ surfaced = Last(calls).error
        \/ surfaced.cause = Last(calls).error

\* Every model is exhausted and generateWithFallback threw the last failure.
C4_Witness ==
    /\ AllModelsExhausted
    /\ Last(calls).model = Len(modelNames)
    /\ lastError = Last(calls).error

\* ---- C5 ----------------------------------------------------------------

Terminal(e) == e \in {"close", "error"}

\* C5: the output carries at most one terminal event and nothing after it; it
\* ends with a close once the provider stream has completed, and with an error
\* once the provider stream has failed.
C5_OneTerminalEvent ==
    /\ Cardinality({i \in DOMAIN out : Terminal(out[i])}) <= 1
    /\ \A i \in DOMAIN out : Terminal(out[i]) => i = Len(out)
    /\ provider = "ended" => out # <<>> /\ Last(out) = "close"
    /\ provider = "failed" => out # <<>> /\ Last(out) = "error"
    /\ provider \in {"none", "open"} => \A i \in DOMAIN out : ~Terminal(out[i])

\* The provider stream failed after a fragment had been delivered.
C5_Witness ==
    /\ provider = "failed"
    /\ Len(out) >= 2
    /\ out[1] = "fragment"

\* ---- C6 ----------------------------------------------------------------

\* One embed call of the upload's batch has failed.
BatchFailed ==
    /\ req.op = "upload"
    /\ \E i \in DOMAIN req.embState : req.embState[i] = "failed"

\* C6: when an embed call of a batch fails the handler receives no vectors and
\* answers 500, each text was sent exactly once, and nothing is written to the
\* index.
C6_BatchAllOrNothing ==
    BatchFailed =>
        /\ req.pc = "done" /\ req.response.status = 500
        /\ req.embeddings = <<>>
        /\ \A i \in DOMAIN req.pdfChunks : req.embedCalls[i] = 1
        /\ req.written = {} /\ req.storeCalls = 0

\* A batch of two failed after one of its calls had succeeded.
C6_Witness ==
    /\ BatchFailed
    /\ \E i \in DOMAIN req.embState : req.embState[i] = "ok"

\* ---- C7 ----------------------------------------------------------------

\* C7: the vectors the handler receives are as many as the texts and the i-th is
\* the embedding of the i-th text; a stored record carries the vector of its own
\* text.
C7_OrderPreserved ==
    /\ req.op = "upload" /\ req.embeddings # <<>> =>
           /\ Len(req.embeddings) = Len(req.pdfChunks)
           /\ \A i \in DOMAIN req.pdfChunks : req.embeddings[i].of = req.pdfChunks[i].text
    /\ \A rec \in store : rec.values.of = rec.metadata.text

\* Two calls completed in the reverse of the order they were issued in, and the
\* records were written.
C7_Witness ==
    /\ req.op = "upload"
    /\ req.order = <<2, 1>>
    /\ Len(req.embeddings) = 2
    /\ Cardinality(req.written) = 2

\* ---- C8 ----------------------------------------------------------------

\* C8: every vector handed to the upload handler and every vector in the index
\* has 768 values.
C8_DimensionInvariant ==
    /\ \A i \in DOMAIN req.embeddings : req.embeddings[i].dim = 768
    /\ \A rec \in store : rec.values.dim = 768

\* ---- C9 ----------------------------------------------------------------

\* The buffer begins with the four bytes %PDF.
BeginsWithMagic(buffer) ==
    Len(buffer.head) = 4 /\ buffer.head = <<"%", "P", "D", "F">>

\* C9: for a buffer that does not begin with %PDF, extractTextFromPDF fails with
\* an invalid-PDF error without calling the parser, and the upload handler
\* answers 400 "Invalid PDF file" without calling the parser, the embedder or
\* the index.
C9_HeaderChecked ==
    /\ req.op = "extract" /\ ~BeginsWithMagic(req.buffer) =>
           /\ ~req.extracted.ok
           /\ req.parserCalls = 0
           /\ \/ Includes(req.extracted.error, "Invalid PDF")
              \/ Includes(req.extracted.error, "Invalid or empty PDF buffer")
    /\ req.op = "upload" /\ req.buffer # NoBuffer /\ ~BeginsWithMagic(req.buffer) =>
           /\ req.pc = "done"
           /\ req.response.status = 400
           /\ Includes(req.response.error, "Invalid PDF")
           /\ req.parserCalls = 0
           /\ req.embedCalls = <<>>
           /\ req.storeCalls = 0 /\ req.written = {}

\* An upload of a 200-byte buffer that begins with GIF8 has been answered.
C9_Witness ==
    /\ req.op = "upload"
    /\ req.buffer.size = 200
    /\ req.buffer.head = <<"G", "I", "F", "8">>
    /\ req.response.status = 400

\* ---- C10 ---------------------------------------------------------------

Blank(text) == text = <<>> \/ strLength(trim(text)) = 0

\* C10: extractTextFromPDF returns no empty or whitespace-only text, and fails
\* when the parser yields such a text; an upload answered with success created
\* at least one chunk and none of its chunks is empty or blank.
C10_NoEmptySuccess ==
    /\ req.op = "extract" =>
           /\ req.extracted.ok => ~Blank(req.extracted.text)
           /\ req.buffer.kind = "text" /\ Blank(req.buffer.text) => ~req.extracted.ok
    /\ req.op = "upload" /\ req.response.status = 200 =>
           /\ req.response.chunksCreated >= 1
           /\ req.response.chunksCreated = Len(req.pdfChunks)
           /\ \A i \in DOMAIN req.pdfChunks : ~Blank(req.pdfChunks[i].text)

\* extractTextFromPDF was called on a PDF whose text is three spaces.
C10_Witness ==
    /\ req.op = "extract"
    /\ BeginsWithMagic(req.buffer)
    /\ req.buffer.kind = "text"
    /\ req.buffer.text = <<Sp(3)>>
    /\ req.parserCalls = 1


\* ---- C11 ---------------------------------------------------------------

\* 100 <= chunkSize <= 10000 and 0 <= overlap < chunkSize.
ValidParams(chunkSize, overlap) ==
    /\ chunkSize >= 100 /\ chunkSize <= 10000
    /\ overlap >= 0 /\ overlap < chunkSize

SplitCalled == req.op \in {"split", "legacySplit"}

\* C11: a call of the splitter fails exactly when (chunkSize, overlap) is outside
\* the valid ranges; processPDFToChunks rejects such a pair with the validation
\* message before the parser is called, and no valid pair is rejected so.
C11_ParamsValidated ==
    /\ SplitCalled =>
           (req.call.ok <=> ValidParams(req.call.chunkSize, req.call.overlap))
    /\ req.op = "process" /\ req.buffer.size > 0 =>
           /\ ~ValidParams(req.call.chunkSize, req.call.overlap) =>
                  /\ ~req.call.ok
                  /\ req.parserCalls = 0
                  /\ \/ req.call.error = <<"Chunk size must be between 100 and 10000 characters">>
                     \/ req.call.error = <<"Overlap must be between 0 and chunk size">>
           /\ ValidParams(req.call.chunkSize, req.call.overlap) =>
                  /\ req.call.error # <<"Chunk size must be between 100 and 10000 characters">>
                  /\ req.call.error # <<"Overlap must be between 0 and chunk size">>

\* splitTextIntoChunks returned chunks although chunkSize is below 100.
C11_Witness ==
    /\ req.op = "split"
    /\ req.call.chunkSize = 99
    /\ req.call.ok
    /\ req.call.chunks # <<>>

\* ---- C12 ---------------------------------------------------------------

\* C12: for valid (chunkSize, overlap) the chunks of either splitter carry their
\* position as chunkIndex (0, 1, 2, ...), and page numbers that are at least 1
\* and never decrease along the list.
C12_IndexAndPages ==
    SplitCalled /\ ValidParams(req.call.chunkSize, req.call.overlap) =>
        \A i \in DOMAIN req.call.chunks :
            /\ req.call.chunks[i].chunkIndex = i - 1
            /\ req.call.chunks[i].pageNumber >= 1
            /\ i > 1 => req.call.chunks[i - 1].pageNumber <= req.call.chunks[i].pageNumber

\* A valid call returned at least three chunks, the last on a later page than
\* the first.
C12_Witness ==
    /\ req.op = "split"
    /\ ValidParams(req.call.chunkSize, req.call.overlap)
    /\ Len(req.call.chunks) >= 3
    /\ req.call.chunks[1].pageNumber < Last(req.call.chunks).pageNumber

\* ---- C13 ---------------------------------------------------------------

\* s occurs in t as a contiguous run of whole tokens.
IsInfix(s, t) == \E i \in 0..(Len(t) - Len(s)) : SubSeq(t, i + 1, i + Len(s)) = s

\* The chunks that hold the sentence s whole.
ChunksWith(s, chunks) == {c \in DOMAIN chunks : IsInfix(s, chunks[c].text)}

\* The first of a non-empty set of positions.
First(S) == CHOOSE c \in S : \A d \in S : c <= d

\* C13: every sentence of the text is held whole by at least one chunk, and the
\* first chunks holding the sentences follow the order of the sentences.
C13_SentencesKept ==
    req.op = "split" =>
        LET sentences == sentencesOf(req.call.text)
            held == [i \in DOMAIN sentences |-> ChunksWith(trim(sentences[i]), req.call.chunks)]
        IN  /\ \A i \in DOMAIN sentences : held[i] # {}
            /\ \A i, j \in DOMAIN sentences : i < j => First(held[i]) <= First(held[j])

\* A sentence longer than chunkSize was emitted whole as a chunk of its own,
\* and the sentence after it as the trailing chunk.
C13_Witness ==
    /\ req.op = "split"
    /\ req.call.chunkSize = 100 /\ req.call.overlap = 0
    /\ Len(req.call.chunks) = 2
    /\ strLength(req.call.chunks[1].text) = 150
    /\ Len(sentencesOf(req.call.text)) = 2

\* ---- C14 ---------------------------------------------------------------

\* Every character of the text is whitespace.
OnlyWhitespace(text) == \A i \in DOMAIN text : text[i].k = "s"

\* C14 as stated: a splitter returns the empty list exactly for the texts without
\* a non-whitespace character.
C14_EmptyIffBlank ==
    SplitCalled => (req.call.chunks = <<>> <=> OnlyWhitespace(req.call.text))

\* C14 as amended: splitTextIntoChunks returns the empty list exactly for the
\* texts without a non-whitespace character; the older splitter returns it
\* exactly for the texts made of whitespace and the characters [.!?] only.
C14_EmptyIffNoContent ==
    /\ req.op = "split" => (req.call.chunks = <<>> <=> OnlyWhitespace(req.call.text))
    /\ req.op = "legacySplit" =>
           (req.call.chunks = <<>> <=>
                \A i \in DOMAIN req.call.text : req.call.text[i].k \in {"s", "p"})

\* The older splitter was called on "..." and returned no chunk.
C14_Witness ==
    /\ req.op = "legacySplit"
    /\ req.call.text = <<Punct(3)>>
    /\ req.call.chunks = <<>>


\* ---- C15 ---------------------------------------------------------------

\* The records of the tenant's file.
RecordsOf(records, userId, fileName) ==
    {rec \in records : rec.metadata.userId = userId /\ rec.metadata.fileName = fileName}

FirstIds(n) == {req.pdfChunks[i].id : i \in 1..n}

\* C16: an upload that reached upsertVectors is answered 200 only after one
\* index.upsert call per batch, all of whose records are then in the store; when
\* call k fails it is answered 500, exactly the records of batches 1..k-1 have
\* been written and are in the store, and call k was the last one made.
C16_AllBatchesOrFailure ==
    req.op = "upload" /\ req.pc = "done" /\ req.storeCalls > 0 =>
        LET n == Len(req.pdfChunks)
            k == req.storeCalls
        IN  /\ \A id \in req.written : \E rec \in store : rec.id = id
            /\ IF req.response.status = 200
               THEN /\ k = CeilDiv(n, batchSize)
                    /\ req.written = FirstIds(n)
               ELSE /\ req.response.status = 500
                    /\ k <= CeilDiv(n, batchSize)
                    /\ req.written = FirstIds((k - 1) * batchSize)

\* The second of three batches failed: the first batch is in the store and the
\* third was not sent.
C16_Witness ==
    /\ req.op = "upload" /\ req.pc = "done"
    /\ Len(req.pdfChunks) = 2 * batchSize + 1
    /\ req.response.status = 500
    /\ req.storeCalls = 2
    /\ Cardinality(req.written) = batchSize
    /\ \A id \in req.written : \E rec \in store : rec.id = id

\* ---- C17 ---------------------------------------------------------------

\* C17: when an upload of a file succeeds while the store already holds records
\* of the same tenant and file name, every record held before is still held and
\* the store has grown by the number of chunks of the upload.
C17_ReingestAdds ==
    [][/\ req.op = "upload" /\ req.pc = "upserting"
       /\ req'.pc = "done" /\ req'.response.status = 200
       /\ RecordsOf(store, req.userId, req.fileName) # {}
       => /\ store \subseteq store'
          /\ Cardinality(store') = Cardinality(store) + Len(req.pdfChunks)]_vars

\* ---- C18 ---------------------------------------------------------------

\* C18: two generateChunkId calls whose (userId, fileName, chunkIndex, timestamp)
\* differ return different ids, in both versions of the library.
C18_IdInjective ==
    req.op = "chunkId" /\ req.idCall.a # req.idCall.b =>
        /\ req.idCall.idA # req.idCall.idB
        /\ req.idCall.legacyA # req.idCall.legacyB

\* Two calls for different tenants and files returned the same id.
C18_Witness ==
    /\ req.op = "chunkId"
    /\ req.idCall.a.userId # req.idCall.b.userId
    /\ req.idCall.a.fileName # req.idCall.b.fileName
    /\ req.idCall.idA = req.idCall.idB
    /\ req.idCall.legacyA = req.idCall.legacyB

\* ---- C19 ---------------------------------------------------------------

\* The records of the tenant.
TenantRecords(records, userId) == {rec \in records : rec.metadata.userId = userId}

\* C19: a listing made while the tenant holds fewer than topK records returns
\* the distinct file names of the tenant's records and their number.
C19_ListingExact ==
    /\ req.op = "list" /\ req.response.status = 200
    /\ Cardinality(TenantRecords(store, req.userId)) < topKList
    => /\ req.response.files =
              {rec.metadata.fileName : rec \in TenantRecords(store, req.userId)}
       /\ req.response.count = Cardinality(req.response.files)
       /\ req.response.totalChunks = Cardinality(TenantRecords(store, req.userId))

\* A listing reported no file and no chunk for a tenant that holds records.
C19_Witness ==
    /\ req.op = "list" /\ req.response.status = 200
    /\ TenantRecords(store, req.userId) # {}
    /\ req.response.files = {}
    /\ req.response.totalChunks = 0

\* ---- C20 ---------------------------------------------------------------

\* The answers of the handlers to a request that fails validation.
ValidationErrors ==
    { <<"Question is required">>, <<"Question cannot be empty">>,
      <<"No file provided">>, <<"Only PDF files are allowed">>,
      <<"File too large. Maximum size is 10MB">> }

\* No embedding, generation, parser or vector-store call was made for the request.
NoExternalCall ==
    /\ req.embedCalls = <<>>
    /\ req.genCalls = 0
    /\ req.storeCalls = 0
    /\ req.parserCalls = 0

\* C20: a request answered with a validation error has made no embedding,
\* generation or vector-store call, and an upload of more than 10 MB is answered
\* 400 without any such call.
C20_FailFast ==
    /\ req.response.status = 400 /\ req.response.error \in ValidationErrors => NoExternalCall
    /\ req.op = "upload" /\ req.buffer.size > 10485760 =>
           /\ req.response.status = 400
           /\ NoExternalCall

\* An upload of more than 10 MB was answered 400.
C20_Witness ==
    /\ req.op = "upload"
    /\ req.buffer.size > 10485760
    /\ req.response.error = <<"File too large. Maximum size is 10MB">>


\* ---- C21 ---------------------------------------------------------------

\* C21: the content snippet of every source of a non-streaming answer has at
\* most 200 characters.
C21_SnippetBounded ==
    req.op = "query" /\ req.response.status = 200 =>
        \A source \in req.response.sources : source.contentLength <= 200

\* A source of an answer shows a chunk of 600 characters with a snippet of 203.
C21_Witness ==
    /\ req.op = "query" /\ req.response.status = 200
    /\ \E source \in req.response.sources : source.contentLength = 203
    /\ \E c \in req.matches : strLength(c.text) = 600

\* C22: when the parser fails with the ENOENT error on its test file, the
\* pipeline's extractTextFromPDF does not abort: a PDF with extractable text is
\* still processed successfully.
C22_FallsThrough ==
    /\ req.op = "process" /\ req.env = "enoent"
    /\ req.buffer.size > 0 /\ BeginsWithMagic(req.buffer)
    /\ req.buffer.kind = "text" /\ ~ Blank(req.buffer.text)
    /\ ValidParams(req.call.chunkSize, req.call.overlap)
    => req.call.ok

\* A text PDF is processed while the parser's test file is missing, and the call
\* fails with the configuration error made from the parser's ENOENT error.
C22_Witness ==
    /\ req.op = "process" /\ req.env = "enoent"
    /\ req.buffer.kind = "text" /\ ~ Blank(req.buffer.text)
    /\ BeginsWithMagic(req.buffer)
    /\ ValidParams(req.call.chunkSize, req.call.overlap)
    /\ ~ req.call.ok /\ req.parserCalls = 1
    /\ req.call.error =
        <<"PDF processing library configuration issue. Please try again or contact support.">>

\* The place of a strategy in the extractor's order.
Priority(strategy) ==
    CASE strategy = "pdf-parse" -> 1
      [] strategy = "workaround" -> 2
      [] strategy = "basic" -> 3

Yields(t) == t.ok /\ nonBlank(t.text)

\* C24: the strategies of an extraction run in the order parser, workaround,
\* raw-stream heuristic, beginning with the parser; the first strategy that
\* yields non-blank text is the last one run and its text is what the extraction
\* returns.
C24_PriorityOrder ==
    \A e \in Extractions :
        LET trace == ext[e].trace
        IN  /\ trace # <<>> => trace[1].strategy = "pdf-parse"
            /\ \A i, j \in 1..Len(trace) :
                   i < j => Priority(trace[i].strategy) < Priority(trace[j].strategy)
            /\ \A i \in 1..Len(trace) :
                   Yields(trace[i]) =>
                       /\ i = Len(trace)
                       /\ ext[e].pc = "done"
                       /\ ext[e].result = [ok |-> TRUE, text |-> trace[i].text, error |-> <<>>]
            /\ ext[e].result.ok => trace # <<>> /\ Yields(trace[Len(trace)])

\* One extraction returned the parser's text at once; another went through all
\* three strategies and returned the text of the raw-stream heuristic.
C24_Witness ==
    \E e, f \in Extractions :
        /\ ext[e].pc = "done" /\ ext[e].result.ok
        /\ Len(ext[e].trace) = 1 /\ ext[e].trace[1].strategy = "pdf-parse"
        /\ ext[f].pc = "done" /\ ext[f].result.ok
        /\ Len(ext[f].trace) = 3 /\ ext[f].trace[3].strategy = "basic"
        /\ ext[f].result.text = ext[f].trace[3].text

\* An extraction that ran its strategies and returned none's text.
AllFailed(e) == ext[e].pc = "done" /\ ~ ext[e].result.ok /\ ext[e].trace # <<>>

\* C25: when every strategy of an extraction failed, the error it raises
\* contains the error message of one of the failed strategies.
C25_CarriesCause ==
    \A e \in Extractions :
        AllFailed(e) =>
            \E i \in 1..Len(ext[e].trace) :
                /\ ~ ext[e].trace[i].ok
                /\ IsInfix(ext[e].trace[i].error, ext[e].result.error)

\* The parser refused an encrypted document for its missing password, the
\* raw-stream heuristic found too little text, and the extraction raised the
\* all-methods-failed message alone.
C25_Witness ==
    \E e \in Extractions :
        /\ AllFailed(e)
        /\ ext[e].buffer.kind = "encrypted"
        /\ ext[e].trace[1].error = <<"No ", "password", " given">>
        /\ ext[e].result.error = allMethodsFailed
        /\ \A i \in 1..Len(ext[e].trace) :
               ~ IsInfix(ext[e].trace[i].error, ext[e].result.error)

\* Every extraction has returned or thrown.
AllFinished == \A e \in Extractions : ext[e].pc \in {"idle", "done"}

\* C28: once every extraction in flight has finished, the working directory of
\* the process is the one it had before they started.
C28_CwdRestored == AllFinished => cwd = AppDir

\* Two extractions took the workaround path at the same time and both finished,
\* and the process is left in the temporary directory.
C28_Witness ==
    /\ \A e \in 1..2 : ext[e].pc = "done" /\ Len(ext[e].trace) >= 2
                       /\ ext[e].trace[2].strategy = "workaround"
    /\ \E e \in 1..2 : ext[e].originalCwd = TmpDir
    /\ AllFinished
    /\ cwd = TmpDir

\* The words of a chunk: its pieces between runs of whitespace.
WordsOf(t) == piecesFrom(t, 1, {i \in DOMAIN t : isSpace(t, i)})

\* The buffer a flush is to leave: the trailing min(floor(overlap / 6), number
\* of words) words of the chunk emitted, then the sentence of the flush.
SeededBuffer(emitted, sentence, overlap) ==
    LET words == WordsOf(emitted)
        n == Min(overlap \div 6, Len(words))
        carried == join(SubSeq(words, Len(words) - n + 1, Len(words)))
    IN  IF carried = <<>> THEN sentence
        ELSE concat(concat(carried, <<Sp(1)>>), sentence)

\* C23: the buffer after a flush of split is the trailing min(floor(overlap / 6),
\* number of words) words of the chunk emitted followed by the sentence of the
\* flush; with an overlap below 6 it is the sentence alone.
C23_FlushSeedsOverlap ==
    req.op = "split" /\ ValidParams(req.call.chunkSize, req.call.overlap) =>
        \A k \in DOMAIN req.flushes :
            req.flushes[k].buffer =
                SeededBuffer(req.flushes[k].emitted, req.flushes[k].sentence, req.call.overlap)

\* The same for the overlaps of at least 6 characters.
C23_FlushSeedsOverlapFrom6 ==
    req.op = "split" /\ ValidParams(req.call.chunkSize, req.call.overlap)
        /\ req.call.overlap >= 6 =>
        \A k \in DOMAIN req.flushes :
            req.flushes[k].buffer =
                SeededBuffer(req.flushes[k].emitted, req.flushes[k].sentence, req.call.overlap)

\* A flush with overlap 0 whose new buffer is the whole chunk emitted followed by
\* the sentence of the flush.
C23_Witness ==
    /\ req.op = "split" /\ req.call.overlap = 0
    /\ ValidParams(req.call.chunkSize, req.call.overlap)
    /\ \E k \in DOMAIN req.flushes :
           /\ req.flushes[k].buffer # req.flushes[k].sentence
           /\ req.flushes[k].buffer =
                  concat(concat(req.flushes[k].emitted, <<Sp(1)>>), req.flushes[k].sentence)

\* The chunk holds a sentence of the text that alone is longer than chunkSize.
HoldsOversizedSentence(chunk) ==
    \E s \in DOMAIN sentencesOf(req.call.text) :
        /\ strLength(trim(sentencesOf(req.call.text)[s])) > req.call.chunkSize
        /\ IsInfix(trim(sentencesOf(req.call.text)[s]), chunk.text)

\* C29: every chunk of split has at most chunkSize characters, unless it holds a
\* sentence that alone is longer than chunkSize.
C29_ChunkWithinSize ==
    req.op = "split" /\ ValidParams(req.call.chunkSize, req.call.overlap) =>
        \A c \in DOMAIN req.call.chunks :
            \/ strLength(req.call.chunks[c].text) <= req.call.chunkSize
            \/ HoldsOversizedSentence(req.call.chunks[c])

\* C29, amended: a chunk longer than chunkSize holds an oversized sentence or is
\* the buffer a flush started it with (the words carried over followed by the
\* sentence of the flush), to which no sentence was added.
C29_ChunkWithinSizeOrSeed ==
    req.op = "split" /\ ValidParams(req.call.chunkSize, req.call.overlap) =>
        \A c \in DOMAIN req.call.chunks :
            \/ strLength(req.call.chunks[c].text) <= req.call.chunkSize
            \/ HoldsOversizedSentence(req.call.chunks[c])
            \/ /\ c > 1 /\ c - 1 \in DOMAIN req.flushes
               /\ req.call.chunks[c].text = trim(req.flushes[c - 1].buffer)

\* With chunkSize 100 and overlap 99 the second chunk is the eight words carried
\* over and a sentence of 87 characters, 175 characters in all, and no sentence
\* of the text is longer than 100; the first chunk is within chunkSize.
C29_Witness ==
    /\ req.op = "split" /\ req.call.chunkSize = 100 /\ req.call.overlap = 99
    /\ Len(req.call.chunks) >= 2
    /\ strLength(req.call.chunks[1].text) <= 100
    /\ strLength(req.call.chunks[2].text) = 175
    /\ ~ HoldsOversizedSentence(req.call.chunks[2])
    /\ req.call.chunks[2].text = trim(req.flushes[1].buffer)

RECURSIVE Flatten(_)
Flatten(batches) == IF batches = <<>> THEN <<>> ELSE batches[1] \o Flatten(Tail(batches))

\* C26: the batches of an upsert that have completed hold at most 100 records
\* each and, put one after the other, are the first records of the input in the
\* input's order, each once; all N records in ceil(N / 100) batches when the
\* upsert succeeds; and a batch is sent only when all batches sent before it
\* have completed.
C26_BatchesInOrder ==
    req.op = "upload" /\ req.storeCalls > 0 =>
        LET ids == [i \in DOMAIN req.pdfChunks |-> req.pdfChunks[i].id]
            sent == Flatten(req.acked)
        IN  /\ \A b \in DOMAIN req.acked :
                   Len(req.acked[b]) >= 1 /\ Len(req.acked[b]) <= 100
            /\ \A b \in DOMAIN req.acked :
                   b < Len(req.acked) => Len(req.acked[b]) = 100
            /\ Len(sent) <= Len(ids) /\ sent = SubSeq(ids, 1, Len(sent))
            /\ \A i, j \in DOMAIN sent : i # j => sent[i] # sent[j]
            /\ req.storeCalls <= Len(req.acked) + 1
            /\ req.pc = "upserting" => req.storeCalls = Len(req.acked) + 1
            /\ req.pc = "done" /\ req.response.status = 200 =>
                   /\ sent = ids
                   /\ Len(req.acked) = CeilDiv(Len(ids), 100)
                   /\ req.storeCalls = Len(req.acked)

\* 201 records were written in three batches of 100, 100 and 1.
C26_Witness ==
    /\ req.op = "upload" /\ req.pc = "done" /\ req.response.status = 200
    /\ Len(req.pdfChunks) = 201
    /\ Len(req.acked) = 3
    /\ Len(req.acked[1]) = 100 /\ Len(req.acked[2]) = 100 /\ Len(req.acked[3]) = 1
    /\ req.acked[3][1] = req.pdfChunks[201].id

\* A failed call after which the same model is tried again.
Retried(c) ==
    /\ ~ c.ok
    /\ c.attempt < 3
    /\ (c.error.status \in {503, 429} \/ Includes(c.error.message, "overloaded"))

\* C27: a wait follows exactly the failed calls after which the same model is
\* tried again (a retryable failure of its first or second attempt), in the
\* order of the calls: 1000 ms after a first attempt and 2000 ms after a second;
\* no wait follows a third attempt or a non-retryable failure, so none precedes
\* the first attempt on the next model.
C27_BackoffDelays ==
    LET retried == SelectSeq(calls, Retried)
    IN  /\ Len(delays) = Len(retried)
        /\ \A j \in DOMAIN delays :
               /\ delays[j].model = retried[j].model
               /\ delays[j].attempt = retried[j].attempt
               /\ delays[j].delay = IF delays[j].attempt = 1 THEN 1000 ELSE 2000
        /\ gpc = "backoff" => calls # <<>> /\ Retried(calls[Len(calls)])
        /\ \A i \in DOMAIN calls :
               i > 1 /\ calls[i].attempt = 1 => ~ Retried(calls[i - 1])

\* The first model failed three times with waits of 1000 and 2000 ms, and the
\* second model was called with no further wait.
C27_Witness ==
    /\ Len(calls) >= 4
    /\ \A i \in 1..3 : calls[i].model = 1 /\ calls[i].attempt = i /\ ~ calls[i].ok
    /\ calls[4].model = 2 /\ calls[4].attempt = 1
    /\ Len(delays) = 2
    /\ delays[1].delay = 1000 /\ delays[2].delay = 2000

\* C30: a DELETE without a file name, or with the empty one, is answered 400
\* before the store is called and removes nothing; every filter a DELETE hands
\* to the store names the tenant and a non-empty file name, and the records it
\* removes are the tenant's records of that one file name.
C30_DeleteOneFile ==
    req.op = "delete" =>
        /\ req.fileName = <<>> =>
               /\ req.response.status = 400
               /\ req.storeCalls = 0 /\ req.filters = {} /\ req.removed = {}
        /\ \A filter \in req.filters :
               /\ DOMAIN filter = {"userId", "fileName"}
               /\ filter["userId"] = req.userId
               /\ filter["fileName"] = req.fileName /\ req.fileName # <<>>
        /\ \A rec \in req.removed :
               rec.metadata.userId = req.userId /\ rec.metadata.fileName = req.fileName

\* The tenant holds records of two file names, and a DELETE without a usable
\* file name is refused with both in place and no call to the store.
C30_Witness ==
    /\ req.op = "delete" /\ req.fileName = <<>>
    /\ req.response.status = 400 /\ req.storeCalls = 0
    /\ \E r1, r2 \in store :
           /\ r1.metadata.userId = req.userId /\ r2.metadata.userId = req.userId
           /\ r1.metadata.fileName # r2.metadata.fileName

=============================================================================
